---- MODULE Spec2Model ----
(***************************************************************************)
(* MD_MIDIFile: Standard MIDI File container parser, per-track event       *)
(* decoder and tick-driven playback scheduler (src/src/MD_MIDIFile.cpp,    *)
(* src/src/MD_MIDITrack.cpp, src/src/MD_MIDIHelper.cpp).                   *)
(*                                                                         *)
(* The SD card holds one file, named "A"; its bytes are `disk`.  A file   *)
(* position is a 0-based byte offset, as SdFile::curPosition() gives it.   *)
(* The MD_MIDIFile object has static storage duration, as in every sketch  *)
(* that uses the library, so members the constructor does not assign start *)
(* as zero.  Values are kept below 2^31: the inputs drawn below never make *)
(* a 32-bit quantity wrap, and 16-bit and 8-bit quantities are reduced     *)
(* explicitly where the code stores them.                                  *)
(***************************************************************************)
EXTENDS Integers, Sequences, FiniteSets, TLC

VARIABLES
  disk,                 \* the bytes of file "A" on the card
  desc,                 \* how `disk` was put together (chunk by chunk); never read by the player
  fileName,             \* _fileName
  fdOpen, fdPos,        \* _fd: open flag and current position
  format, trackCount, ticksPerQuarterNote,
  tempo, tempoDelta, timeSignature, tickTime,
  lastTickError, lastTickCheckTime,
  syncAtStart, paused, looping,
  midiHandler, sysexHandler, metaHandler,   \* TRUE when a hook is registered
  track,                \* _track[0 .. MIDI_MAX_TRACKS-1]
  trackPriority,        \* the TRACK_PRIORITY build switch
  intBits,              \* the width of int in the build: 16 (AVR) or 32 (ARM, ESP)
  now,                  \* micros()
  hung,                 \* a call entered a loop that never ends
  sink,                 \* every event handed to a registered hook, in order
  ret,                  \* what the last call returned
  ticksFed,             \* ticks handed to processEvents since the tracks last started
  passes,               \* the looping flag at each restart that rewound a track, since the load
  clk                   \* bookkeeping of the clock samples since the last resynchronisation

vars == <<disk, desc, fileName, fdOpen, fdPos, format, trackCount, ticksPerQuarterNote,
          tempo, tempoDelta, timeSignature, tickTime, lastTickError, lastTickCheckTime,
          syncAtStart, paused, looping, midiHandler, sysexHandler, metaHandler, track,
          trackPriority, intBits, now, hung, sink, ret, ticksFed, passes, clk>>

-----------------------------------------------------------------------------
(* Program constants *)

MIDI_MAX_TRACKS == 16
MTHD_HDR_SIZE == 4
MTRK_HDR_SIZE == 4
MB_LONG == 4
MB_TRYTE == 3
MB_WORD == 2
MB_BYTE == 1
SYSEX_DATA_SIZE == 50          \* ARRAY_SIZE(sev.data)
META_DATA_SIZE == 50           \* ARRAY_SIZE(mev.data)
EVENT_LOOP_LIMIT == 100        \* the n < 100 cap of processEvents
MTHD_HDR == <<77, 84, 104, 100>>     \* "MThd"
MTRK_HDR == <<77, 84, 114, 107>>     \* "MTrk"

(* Bounds of the model *)

MaxTime == 1100000             \* micros() is not advanced beyond this

-----------------------------------------------------------------------------
(* Arithmetic helpers *)

Min(a, b) == IF a < b THEN a ELSE b

Pow2(n) == 2 ^ n

\* C integer division truncates toward zero.
CDiv(a, b) ==
  IF b = 0 THEN 0
  ELSE LET q == (IF a < 0 THEN -a ELSE a) \div (IF b < 0 THEN -b ELSE b)
       IN IF (a < 0) = (b < 0) THEN q ELSE -q

RECURSIVE Concat(_)
Concat(ss) == IF ss = <<>> THEN <<>> ELSE Head(ss) \o Concat(Tail(ss))

\* Big-endian encoding of n in w bytes: how the file format stores fixed-width fields.
RECURSIVE BigEndian(_, _)
BigEndian(n, w) == IF w = 0 THEN <<>> ELSE BigEndian(n \div 256, w - 1) \o <<n % 256>>

-----------------------------------------------------------------------------
(* SdFile, as the library uses it.  f is the byte sequence of the open     *)
(* file, or <<>> when the descriptor is closed.                            *)

\* read(): the next byte, or -1 at the end of the file; the position moves only on success.
ReadByte(f, p) == IF p < Len(f) THEN [v |-> f[p + 1], pos |-> p + 1] ELSE [v |-> -1, pos |-> p]

\* a read() stored in a uint8_t
ReadU8(f, p) == LET r == ReadByte(f, p) IN [v |-> r.v % 256, pos |-> r.pos]

\* seekSet(target): fails, leaving the position alone, when target is past the end.
\* It returns a bool (1 or 0).
seekSet(f, p, target) ==
  IF target >= 0 /\ target <= Len(f) THEN [ok |-> 1, pos |-> target] ELSE [ok |-> 0, pos |-> p]

seekCur(f, p, offset) == seekSet(f, p, p + offset)

\* fgets(h, n+1): up to n characters from the position on.
fgets(f, p, n) ==
  LET k == Min(n, Len(f) - p)
  IN [str |-> SubSeq(f, p + 1, p + k), pos |-> p + k]

-----------------------------------------------------------------------------
(* Primitive decoders: MD_MIDIHelper.cpp *)

RECURSIVE readMultiByteFrom(_, _, _, _)
readMultiByteFrom(f, p, nLen, value) ==
  IF nLen = 0 THEN [v |-> value, pos |-> p]
  ELSE LET r == ReadByte(f, p)
       IN readMultiByteFrom(f, r.pos, nLen - 1, value * 256 + r.v)

readMultiByte(f, p, nLen) == readMultiByteFrom(f, p, nLen, 0)

\* do { c = read(); value = (value << 7) + (c & 0x7f); } while (c & 0x80);
\* At the end of the file read() gives -1, c is 0xFF and the loop never ends.
RECURSIVE readVarLenFrom(_, _, _)
readVarLenFrom(f, p, value) ==
  IF p >= Len(f) THEN [v |-> value, pos |-> p, hang |-> TRUE]
  ELSE LET c == f[p + 1]
           v == value * 128 + (c % 128)
       IN IF c >= 128 THEN readVarLenFrom(f, p + 1, v)
          ELSE [v |-> v, pos |-> p + 1, hang |-> FALSE]

\* mutation of readVarLen: the loop stops in front of the byte that has the top bit clear
readVarLen_StopShort(f, p) ==
  LET r == readVarLenFrom(f, p, 0)
  IN IF r.hang THEN r ELSE [r EXCEPT !.v = @ \div 128, !.pos = @ - 1]

readVarLen(f, p) == readVarLenFrom(f, p, 0)

-----------------------------------------------------------------------------
(* The part of the object that decoding an event can change, as one record *)
(* m: the file position, the clock fields, the tracks, and what was handed *)
(* to the hooks; m.hooks says which hooks are registered, and decoding     *)
(* never changes it.                                                       *)

Machine ==
  [fdPos |-> fdPos, tempo |-> tempo, tempoDelta |-> tempoDelta,
   timeSignature |-> timeSignature, ticksPerQuarterNote |-> ticksPerQuarterNote,
   tickTime |-> tickTime, track |-> track, sink |-> sink, hung |-> hung,
   fed |-> ticksFed,
   hooks |-> [midi |-> midiHandler, sysex |-> sysexHandler, meta |-> metaHandler],
   garbage |-> FALSE]

\* The bytes the descriptor reads: nothing once it is closed.
File == IF fdOpen THEN disk ELSE <<>>

(* Playback clock: MD_MIDIFile.cpp *)

\* a + b of a uint16_t and an int16_t: where int has 16 bits both operands are converted
\* to unsigned int and the sum is taken modulo 2^16, elsewhere both are promoted to int
TempoSum(a, b) == IF intBits = 16 THEN (a + b) % 65536 ELSE a + b

\* _timeSignature[1] * _ticksPerQuarterNote, a uint8_t by a uint16_t: an unsigned int of
\* 16 bits, or an int of 32
TickDivisor(d, ticks) == IF intBits = 16 THEN (d * ticks) % 65536 ELSE d * ticks

\* (_tickTime * 4) / den where _tickTime, a uint32_t, was assigned the negative long q:
\* (2^32 + 4q) / den, worked out on the half of the dividend
WrappedQuotient(q, den) ==
  LET h == 2147483647 + ((2 * q) + 1)
  IN (2 * (h \div den)) + ((2 * (h % den)) \div den)

\* The inputs of the model keep the divisor of the second division away from 0.
calcTickTime(m) ==
  IF (TempoSum(m.tempo, m.tempoDelta) # 0) /\ m.ticksPerQuarterNote # 0 /\ m.timeSignature[2] # 0
  THEN LET beat == CDiv(60 * 1000000, TempoSum(m.tempo, m.tempoDelta))
           den == TickDivisor(m.timeSignature[2], m.ticksPerQuarterNote)
       IN [m EXCEPT !.tickTime = IF beat < 0 THEN WrappedQuotient(beat, den)
                                 ELSE CDiv(beat * 4, den)]
  ELSE m

setTempoAdjust(m, t) ==
  calcTickTime(IF TempoSum(m.tempo, t) > 0 THEN [m EXCEPT !.tempoDelta = t] ELSE m)

setTempo(m, t) ==
  calcTickTime(IF TempoSum(t, m.tempoDelta) > 0 THEN [m EXCEPT !.tempo = t] ELSE m)

\* _timeSignature[] holds uint8_t
setTimeSignature(m, n, d) ==
  calcTickTime([m EXCEPT !.timeSignature = <<n % 256, d % 256>>])

setTicksPerQuarterNote(m, ticks) ==
  calcTickTime([m EXCEPT !.ticksPerQuarterNote = ticks])

\* _tempo is a uint16_t
setMicrosecondPerQuarterNote(m, us) ==
  calcTickTime([m EXCEPT !.tempo = CDiv(60 * 1000000, us) % 65536])

\* tickClock(): [ticks, lastTickError, lastTickCheckTime].  ticks is a uint16_t.
tickClock(err, last, t, tt) ==
  LET elapsedTime == err + t - last
  IN IF elapsedTime >= tt
     THEN LET ticks == (elapsedTime \div tt) % 65536
          IN [ticks |-> ticks, err |-> elapsedTime - (tt * ticks), last |-> t]
     ELSE [ticks |-> 0, err |-> err, last |-> last]

-----------------------------------------------------------------------------
(* Event stream decoder: MD_MFTrack::parseEvent.  f is the open file, m    *)
(* the machine, i the track.  Each case leaves the file position in        *)
(* m.fdPos; getNextEvent turns it into the track's current offset.         *)

\* A hook is called only when it is registered; what it is given goes on the sink.
Dispatch(m, registered, ev) ==
  IF registered THEN [m EXCEPT !.sink = Append(@, ev)] ELSE m

MidiEvent(m, mev) ==
  [kind |-> "midi", track |-> mev.track, channel |-> mev.channel, size |-> mev.size,
   data |-> SubSeq(mev.data, 1, Min(mev.size, 4)), at |-> m.fed]

\* case 0x80 ... 0xBF, 0xE0 ... 0xEF: two parameters
parseMidi2(f, m, i, eType, p) ==
  LET r1 == ReadU8(f, p)
      r2 == ReadU8(f, r1.pos)
      mev == [m.track[i].mev EXCEPT !.size = 3, !.channel = eType % 16,
                                    !.data = <<eType - (eType % 16), r1.v, r2.v, @[4]>>]
      m1 == [m EXCEPT !.track[i].mev = mev, !.fdPos = r2.pos]
  IN Dispatch(m1, m.hooks.midi, MidiEvent(m1, mev))

\* case 0xC0 ... 0xDF: one parameter
parseMidi1(f, m, i, eType, p) ==
  LET r1 == ReadU8(f, p)
      mev == [m.track[i].mev EXCEPT !.size = 2, !.channel = eType % 16,
                                    !.data = <<eType - (eType % 16), r1.v, @[3], @[4]>>]
      m1 == [m EXCEPT !.track[i].mev = mev, !.fdPos = r1.pos]
  IN Dispatch(m1, m.hooks.midi, MidiEvent(m1, mev))

\* for (i = 2; i < _mev.size; i++) _mev.data[i] = read();
RECURSIVE runOnBytes(_, _, _, _, _)
runOnBytes(f, data, p, k, size) ==
  IF k >= size \/ k > 3 THEN [data |-> data, pos |-> p]
  ELSE LET r == ReadU8(f, p)
       IN runOnBytes(f, [data EXCEPT ![k + 1] = r.v], r.pos, k + 1, size)

\* mutation of parseRunOn: the byte read in the status position is dropped and all the
\* parameters are read behind it
parseRunOn_Skip(f, m, i, eType, p) ==
  LET old == m.track[i].mev
      rd == runOnBytes(f, old.data, p, 1, old.size)
      mev == [old EXCEPT !.data = rd.data]
      m1 == [m EXCEPT !.track[i].mev = mev, !.fdPos = rd.pos]
  IN Dispatch(m1, m.hooks.midi, MidiEvent(m1, mev))


\* case 0x00 ... 0x7F: running status, the byte read is the first data byte
parseRunOn(f, m, i, eType, p) ==
  LET old == m.track[i].mev
      rd == runOnBytes(f, [old.data EXCEPT ![2] = eType], p, 2, old.size)
      mev == [old EXCEPT !.data = rd.data]
      m1 == [m EXCEPT !.track[i].mev = mev, !.fdPos = rd.pos]
  IN Dispatch(m1, m.hooks.midi, MidiEvent(m1, mev))

\* n successive read()s, each stored in a uint8_t: the k-th is ReadU8 at p + k - 1,
\* which past the end of the file gives 255 and leaves the position alone
readBytes(f, p, n) ==
  IF n <= 0 THEN [data |-> <<>>, pos |-> p]
  ELSE [data |-> [k \in 1..n |-> ReadU8(f, Min(p + k - 1, Len(f))).v],
        pos |-> Min(p + n, Len(f))]

\* mutation of parseSysex: a SysEx event clears the running-status memory of its track
parseSysex_ClearsStatus(f, m, i, eType, p) ==
  LET vl == readVarLen(f, p)
      index == IF eType = 240 THEN 1 ELSE 0
      size == (IF eType = 240 THEN (vl.v % 256) + 1 ELSE vl.v % 256) % 256
      minLen == Min(size, SYSEX_DATA_SIZE)
      rd == readBytes(f, vl.pos, minLen - index)
      sk == IF size > minLen THEN seekCur(f, rd.pos, size - minLen)
                             ELSE [ok |-> 1, pos |-> rd.pos]
      sev == [kind |-> "sysex", track |-> m.track[i].trackId, size |-> size,
              data |-> (IF eType = 240 THEN <<eType>> ELSE <<>>) \o rd.data, at |-> m.fed]
  IN IF vl.hang THEN [m EXCEPT !.hung = TRUE]
     ELSE Dispatch([m EXCEPT !.fdPos = sk.pos, !.track[i].mev.size = 0,
                       !.track[i].mev.data = <<0, 0, 0, 0>>], m.hooks.sysex, sev)

\* mutation of parseSysex: with no SysEx hook registered the payload is left unread
parseSysex_UnhookedUnread(f, m, i, eType, p) ==
  LET vl == readVarLen(f, p)
      index == IF eType = 240 THEN 1 ELSE 0
      size == (IF eType = 240 THEN (vl.v % 256) + 1 ELSE vl.v % 256) % 256
      minLen == Min(size, SYSEX_DATA_SIZE)
      rd == readBytes(f, vl.pos, minLen - index)
      sk == IF size > minLen THEN seekCur(f, rd.pos, size - minLen)
                             ELSE [ok |-> 1, pos |-> rd.pos]
      sev == [kind |-> "sysex", track |-> m.track[i].trackId, size |-> size,
              data |-> (IF eType = 240 THEN <<eType>> ELSE <<>>) \o rd.data, at |-> m.fed]
  IN IF vl.hang THEN [m EXCEPT !.hung = TRUE]
     ELSE IF ~m.hooks.sysex THEN [m EXCEPT !.fdPos = vl.pos]
     ELSE Dispatch([m EXCEPT !.fdPos = sk.pos], m.hooks.sysex, sev)

\* case 0xF0, 0xF7.  sev.size is a uint8_t (MD_MIDIFile.h); `data` holds the bytes
\* of sev.data that were written, `size` is sev.size as the hook sees it.
parseSysex(f, m, i, eType, p) ==
  LET vl == readVarLen(f, p)
      index == IF eType = 240 THEN 1 ELSE 0
      size == (IF eType = 240 THEN (vl.v % 256) + 1 ELSE vl.v % 256) % 256
      minLen == Min(size, SYSEX_DATA_SIZE)
      rd == readBytes(f, vl.pos, minLen - index)
      sk == IF size > minLen THEN seekCur(f, rd.pos, size - minLen)
                             ELSE [ok |-> 1, pos |-> rd.pos]
      sev == [kind |-> "sysex", track |-> m.track[i].trackId, size |-> size,
              data |-> (IF eType = 240 THEN <<eType>> ELSE <<>>) \o rd.data, at |-> m.fed]
  IN IF vl.hang THEN [m EXCEPT !.hung = TRUE]
     ELSE Dispatch([m EXCEPT !.fdPos = sk.pos], m.hooks.sysex, sev)

\* 1 << d stored in a uint8_t: the low 8 bits of 2^d.  For d at or beyond the width of
\* int the shift is undefined; the files of the model keep d below 15.
ShiftOne(d) == IF d < 8 THEN Pow2(d) ELSE 0

KeyNames == << <<"C","b">>, <<"G","b">>, <<"D","b">>, <<"A","b">>, <<"E","b">>, <<"B","b">>,
               <<"F">>, <<"C">>, <<"G">>, <<"D">>, <<"A">>, <<"E">>, <<"B">>,
               <<"F","#">>, <<"C","#">>, <<"G","#">>, <<"D","#">>, <<"A","#">> >>

\* mutation of keySignature: minor keys are looked up where the major keys are
keySignature_OneTable(sf, mi) ==
  IF sf >= -7 /\ sf <= 7
  THEN IF mi = 0 THEN KeyNames[sf + 7 + 1] \o <<"M">>
       ELSE IF mi = 1 THEN KeyNames[sf + 7 + 1] \o <<"m">>
       ELSE <<"E","r","r">>
  ELSE <<"E","r","r">>

\* the text the key signature case leaves in mev.chars
keySignature(sf, mi) ==
  IF sf >= -7 /\ sf <= 7
  THEN IF mi = 0 THEN KeyNames[sf + 7 + 1] \o <<"M">>
       ELSE IF mi = 1 THEN KeyNames[sf + 10 + 1] \o <<"m">>
       ELSE <<"E","r","r">>
  ELSE <<"E","r","r">>

\* top is the highest index of mev.data or mev.chars that was written, -1 when none was
MetaEvent(m, i, type, size, data, top) ==
  [kind |-> "meta", track |-> m.track[i].trackId, size |-> size, type |-> type,
   data |-> data, top |-> top, at |-> m.fed,
   endOfTrack |-> m.track[i].endOfTrack, tempo |-> m.tempo,
   timeSignature |-> m.timeSignature, tickTime |-> m.tickTime]

\* mutation of parseMeta: End-of-Track is acted on, every other meta event is skipped, and
\* no meta event is handed to the hook
parseMeta_Unforwarded(f, m, i, p) ==
  LET rt == ReadU8(f, p)
      vl == readVarLen(f, rt.pos)
  IN IF vl.hang THEN [m EXCEPT !.hung = TRUE]
     ELSE IF rt.v = 47 THEN [m EXCEPT !.track[i].endOfTrack = TRUE, !.fdPos = vl.pos]
     ELSE [m EXCEPT !.fdPos = seekCur(f, vl.pos, vl.v).pos]

\* case 0xFF
parseMeta(f, m, i, p) ==
  LET rt == ReadU8(f, p)
      type == rt.v
      vl == readVarLen(f, rt.pos)
      mLen == vl.v
      q == vl.pos
  IN
  IF vl.hang THEN [m EXCEPT !.hung = TRUE]
  ELSE IF type = 47 THEN         \* 0x2f end of track
    LET m1 == [m EXCEPT !.track[i].endOfTrack = TRUE, !.fdPos = q]
    IN Dispatch(m1, m.hooks.meta, MetaEvent(m1, i, type, mLen, <<>>, -1))
  ELSE IF type = 81 THEN         \* 0x51 set tempo
    LET r == readMultiByte(f, q, MB_TRYTE)
        m1 == setMicrosecondPerQuarterNote([m EXCEPT !.fdPos = r.pos], r.v)
    IN Dispatch(m1, m.hooks.meta,
                MetaEvent(m1, i, type, mLen,
                          <<(r.v \div 65536) % 256, (r.v \div 256) % 256, r.v % 256>>, 2))
  ELSE IF type = 88 THEN         \* 0x58 time signature
    LET rn == ReadU8(f, q)
        rd == ReadU8(f, rn.pos)
        sk == seekCur(f, rd.pos, mLen - 2)
        m1 == setTimeSignature([m EXCEPT !.fdPos = sk.pos], rn.v, ShiftOne(rd.v))
    IN Dispatch(m1, m.hooks.meta, MetaEvent(m1, i, type, mLen, <<rn.v, rd.v, 0, 0>>, 3))
  ELSE IF type = 89 THEN         \* 0x59 key signature
    LET rs == ReadU8(f, q)
        rm == ReadU8(f, rs.pos)
        sf == IF rs.v >= 128 THEN rs.v - 256 ELSE rs.v
        chars == keySignature(sf, rm.v)
        m1 == [m EXCEPT !.fdPos = rm.pos]
    IN Dispatch(m1, m.hooks.meta, MetaEvent(m1, i, type, Len(chars), chars, Len(chars)))
  ELSE IF type = 0 THEN          \* 0x00 sequence number
    LET r == readMultiByte(f, q, MB_WORD)
        x == r.v % 65536
        m1 == [m EXCEPT !.fdPos = r.pos]
    IN Dispatch(m1, m.hooks.meta, MetaEvent(m1, i, type, mLen, <<x \div 256, x % 256>>, 1))
  ELSE IF type = 32 \/ type = 33 THEN   \* 0x20 channel prefix, 0x21 port prefix
    LET r == readMultiByte(f, q, MB_BYTE)
        m1 == [m EXCEPT !.fdPos = r.pos]
    IN Dispatch(m1, m.hooks.meta, MetaEvent(m1, i, type, mLen, <<r.v % 256>>, 0))
  ELSE                           \* default: copied up to the capacity, the rest skipped
    \* mev.chars[minLen] = 0 with minLen = ARRAY_SIZE(mev.data) writes behind the buffer.
    \* What the byte hits is undefined: something that is not read again, or, with
    \* m.garbage, the low byte of mLen, which the test and the seek that follow read.
    LET minLen == Min(META_DATA_SIZE, mLen) % 256
        rd == readBytes(f, q, minLen)
        left == IF minLen = META_DATA_SIZE /\ m.garbage THEN mLen - (mLen % 256) ELSE mLen
        sk == IF left > META_DATA_SIZE THEN seekCur(f, rd.pos, left - META_DATA_SIZE)
                                       ELSE [ok |-> 1, pos |-> rd.pos]
        m1 == [m EXCEPT !.fdPos = sk.pos]
    IN Dispatch(m1, m.hooks.meta, MetaEvent(m1, i, type, mLen, rd.data, minLen))

\* mutation of parseEvent: a status byte that is not known is stepped over
parseEvent_SkipUnknown(f, m, i) ==
  LET r == ReadU8(f, m.fdPos)
      eType == r.v
  IN IF (eType >= 128 /\ eType <= 191) \/ (eType >= 224 /\ eType <= 239)
       THEN parseMidi2(f, m, i, eType, r.pos)
     ELSE IF eType >= 192 /\ eType <= 223 THEN parseMidi1(f, m, i, eType, r.pos)
     ELSE IF eType <= 127 THEN parseRunOn(f, m, i, eType, r.pos)
     ELSE IF eType = 240 \/ eType = 247 THEN parseSysex(f, m, i, eType, r.pos)
     ELSE IF eType = 255 THEN parseMeta(f, m, i, r.pos)
     ELSE [m EXCEPT !.fdPos = r.pos]

parseEvent(f, m, i) ==
  LET r == ReadU8(f, m.fdPos)
      eType == r.v
  IN IF (eType >= 128 /\ eType <= 191) \/ (eType >= 224 /\ eType <= 239)
       THEN parseMidi2(f, m, i, eType, r.pos)
     ELSE IF eType >= 192 /\ eType <= 223 THEN parseMidi1(f, m, i, eType, r.pos)
     ELSE IF eType <= 127 THEN parseRunOn(f, m, i, eType, r.pos)
     ELSE IF eType = 240 \/ eType = 247 THEN parseSysex(f, m, i, eType, r.pos)
     ELSE IF eType = 255 THEN parseMeta(f, m, i, r.pos)
     ELSE [m EXCEPT !.track[i].endOfTrack = TRUE, !.fdPos = r.pos]

(* Track cursor: MD_MFTrack *)

ZeroMev == [track |-> 0, channel |-> 0, size |-> 0, data |-> <<0, 0, 0, 0>>]

trackRestart(tr) == [tr EXCEPT !.currOffset = 0, !.endOfTrack = FALSE, !.elapsedTicks = 0]

trackReset(tr) ==
  [trackRestart([tr EXCEPT !.length = 0, !.startOffset = 0]) EXCEPT !.trackId = 255]

trackSyncTime(tr) == [tr EXCEPT !.elapsedTicks = 0]

\* MD_MFTrack::MD_MFTrack
NewTrack ==
  trackReset([trackId |-> 0, length |-> 0, startOffset |-> 0, currOffset |-> 0,
              endOfTrack |-> FALSE, elapsedTicks |-> 0, mev |-> ZeroMev])

\* the end of getNextEvent, behind parseEvent: m is the machine as parseEvent left it
trackAfterEvent(m, i) ==
  LET cur == m.fdPos - m.track[i].startOffset
  IN [m |-> [m EXCEPT !.track[i].currOffset = cur,
                      !.track[i].endOfTrack = @ \/ cur >= m.track[i].length],
      b |-> TRUE]

\* mutation of trackDueEvent: an event that is not yet due leaves the current offset behind
\* its delta-time
trackDueEvent_SavesPointer(f, m, i, elapsed, vl) ==
  IF vl.hang
    THEN [m |-> [m EXCEPT !.track[i].elapsedTicks = elapsed, !.fdPos = vl.pos, !.hung = TRUE],
          b |-> FALSE]
  ELSE IF elapsed < vl.v
    THEN [m |-> [m EXCEPT !.track[i].elapsedTicks = elapsed, !.fdPos = vl.pos,
                          !.track[i].currOffset = vl.pos - m.track[i].startOffset],
          b |-> FALSE]
  ELSE trackAfterEvent(
         parseEvent(f, [m EXCEPT !.track[i].elapsedTicks = elapsed - vl.v, !.fdPos = vl.pos],
                    i),
         i)

\* getNextEvent from the delta-time on: vl is the delta-time as readVarLen gave it
trackDueEvent(f, m, i, elapsed, vl) ==
  IF vl.hang
    THEN [m |-> [m EXCEPT !.track[i].elapsedTicks = elapsed, !.fdPos = vl.pos, !.hung = TRUE],
          b |-> FALSE]
  ELSE IF elapsed < vl.v
    THEN [m |-> [m EXCEPT !.track[i].elapsedTicks = elapsed, !.fdPos = vl.pos], b |-> FALSE]
  ELSE trackAfterEvent(
         parseEvent(f, [m EXCEPT !.track[i].elapsedTicks = elapsed - vl.v, !.fdPos = vl.pos],
                    i),
         i)

\* mutation of trackGetNextEvent: the delta-time is read where the descriptor stands
trackGetNextEvent_NoSeek(f, m, i, tickCount) ==
  IF m.track[i].endOfTrack THEN [m |-> m, b |-> FALSE]
  ELSE trackDueEvent(f, m, i, m.track[i].elapsedTicks + tickCount,
                     readVarLen(f, m.fdPos))

\* MD_MFTrack::getNextEvent: [m, b], b the value returned
trackGetNextEvent(f, m, i, tickCount) ==
  IF m.track[i].endOfTrack THEN [m |-> m, b |-> FALSE]
  ELSE trackDueEvent(f, m, i, m.track[i].elapsedTicks + tickCount,
                     readVarLen(f, seekSet(f, m.fdPos,
                                           m.track[i].startOffset + m.track[i].currOffset).pos))

\* MD_MFTrack::load: err is -1, 0 or 1
trackLoad(f, p, tr, trackId) ==
  LET t0 == [tr EXCEPT !.trackId = trackId, !.mev.track = trackId]
      h == fgets(f, p, MTRK_HDR_SIZE)
      r == readMultiByte(f, h.pos, MB_LONG)
      t1 == [t0 EXCEPT !.length = r.v, !.startOffset = r.pos, !.currOffset = 0]
      sk == seekSet(f, r.pos, r.pos + r.v)
  IN IF h.str # MTRK_HDR THEN [err |-> 0, tr |-> t0, pos |-> h.pos]
     ELSE IF sk.ok = -1 THEN [err |-> 1, tr |-> t1, pos |-> sk.pos]
     ELSE [err |-> -1, tr |-> t1, pos |-> sk.pos]

-----------------------------------------------------------------------------
(* Playback coordinator: MD_MIDIFile::processEvents *)

\* TRACK_PRIORITY: for (n = 0; n < 100; n++) if (!_track[i].getNextEvent(...)) break;
\* drainSpan runs the k passes from pass n on, the first half of them before the second,
\* and gives [m, b], b FALSE when a pass broke out of the loop.
RECURSIVE drainSpan(_, _, _, _, _, _)

\* r is the outcome of the passes before pass n; k passes are left
drainRest(f, r, i, n, k, ticks) ==
  IF ~r.b \/ r.m.hung THEN r ELSE drainSpan(f, r.m, i, n, k, ticks)

drainSpan(f, m, i, n, k, ticks) ==
  IF k = 1 THEN trackGetNextEvent(f, m, i, IF n = 0 THEN ticks ELSE 0)
  ELSE drainRest(f, drainSpan(f, m, i, n, k \div 2, ticks), i, n + (k \div 2), k - (k \div 2),
                 ticks)

\* mutation of drainTrack: one decode attempt per track and step
drainTrack_Once(f, m, i, n, ticks) ==
  IF m.hung THEN m ELSE trackGetNextEvent(f, m, i, ticks).m

\* the loop from pass n on
drainTrack(f, m, i, n, ticks) ==
  IF n >= EVENT_LOOP_LIMIT \/ m.hung THEN m
  ELSE drainSpan(f, m, i, n, EVENT_LOOP_LIMIT - n, ticks).m

RECURSIVE drainTracks(_, _, _, _, _)
drainTracks(f, m, i, count, ticks) ==
  IF i >= count \/ m.hung THEN m
  ELSE drainTracks(f, drainTrack(f, m, i, 0, ticks), i + 1, count, ticks)

\* EVENT_PRIORITY: one decode attempt on every track; [m, done]
RECURSIVE oneRound(_, _, _, _, _, _)

\* r is what getNextEvent returned for track i
roundNext(f, r, i, count, tickCount, done) ==
  oneRound(f, r.m, i + 1, count, tickCount, done \/ r.b)

oneRound(f, m, i, count, tickCount, done) ==
  IF i >= count \/ m.hung THEN [m |-> m, done |-> done]
  ELSE roundNext(f, trackGetNextEvent(f, m, i, tickCount), i, count, tickCount, done)

\* for (n = 0; (n < 100) && (!doneEvents); n++) { doneEvents = false; ...round...;
\*   if (!doneEvents) break; }      doneEvents is what the for statement tests.
RECURSIVE rounds(_, _, _, _, _, _)

\* r is the outcome of round n
roundsNext(f, r, n, count, ticks) ==
  IF ~r.done THEN r.m ELSE rounds(f, r.m, n + 1, count, ticks, r.done)

rounds(f, m, n, count, ticks, doneEvents) ==
  IF n >= EVENT_LOOP_LIMIT \/ doneEvents \/ m.hung THEN m
  ELSE roundsNext(f, oneRound(f, m, 0, count, IF n = 0 THEN ticks ELSE 0, FALSE),
                  n, count, ticks)

\* garbage: the value the uninitialised local doneEvents happens to hold on entry
processEvents(f, m, count, ticks, byTrack, garbage) ==
  IF byTrack THEN drainTracks(f, m, 0, count, ticks)
  ELSE rounds(f, m, 0, count, ticks, garbage)

-----------------------------------------------------------------------------
(* Container parser: MD_MIDIFile::load *)

\* the two checks on the track count, in the order load() makes them
trackCountCheck(fmt, n) ==
  IF fmt = 0 /\ n # 1 THEN 6
  ELSE IF n > MIDI_MAX_TRACKS THEN 7
  ELSE -1

\* the time division field: [code, ticks]
timeDivision(dat16) ==
  IF dat16 >= 32768
  THEN LET fps == (dat16 \div 256) % 256
           resolution == dat16 % 256
           frames == IF fps = 232 THEN 24 ELSE IF fps = 231 THEN 25
                     ELSE IF fps = 227 THEN 29 ELSE IF fps = 226 THEN 30 ELSE 0
       IN IF frames = 0 THEN [code |-> 7, ticks |-> dat16]
          ELSE [code |-> -1, ticks |-> (frames * resolution) % 65536]
  ELSE [code |-> -1, ticks |-> dat16]

\* the object as load() works on it
Object ==
  [m |-> Machine, format |-> format, trackCount |-> trackCount, open |-> fdOpen, code |-> -1]

RECURSIVE loadTracks(_, _, _)
loadTracks(f, o, i) ==
  IF i >= o.trackCount THEN [o EXCEPT !.code = -1]
  ELSE LET r == trackLoad(f, o.m.fdPos, o.m.track[i], i)
           o1 == [o EXCEPT !.m.track[i] = r.tr, !.m.fdPos = r.pos]
       IN IF r.err # -1 THEN [o1 EXCEPT !.code = (10 * (i + 1)) + r.err, !.open = FALSE]
          ELSE loadTracks(f, o1, i + 1)

\* the header chunk and the tracks, once the file is open at position 0
loadOpened(f, o) ==
  LET h == fgets(f, 0, MTHD_HDR_SIZE)
      r32 == readMultiByte(f, h.pos, MB_LONG)
      rfmt == readMultiByte(f, r32.pos, MB_WORD)
      rcnt == readMultiByte(f, rfmt.pos, MB_WORD)
      rdiv == readMultiByte(f, rcnt.pos, MB_WORD)
      fail(c, oo) == [oo EXCEPT !.code = c, !.open = FALSE]
      o0 == [o EXCEPT !.open = TRUE, !.m.fdPos = 0]
      o1 == [o0 EXCEPT !.format = rfmt.v % 256]
      o2 == [o1 EXCEPT !.trackCount = rcnt.v % 256]
      td == timeDivision(rdiv.v % 65536)
      o3 == [o2 EXCEPT !.m = calcTickTime([@ EXCEPT !.ticksPerQuarterNote = td.ticks,
                                                    !.fdPos = rdiv.pos])]
  IN IF h.str # MTHD_HDR THEN fail(3, o0)
     ELSE IF r32.v # 6 THEN fail(4, o0)
     ELSE IF (rfmt.v % 65536) # 0 /\ (rfmt.v % 65536) # 1 THEN fail(5, o0)
     ELSE IF trackCountCheck(o1.format, rcnt.v % 65536) # -1
       THEN fail(trackCountCheck(o1.format, rcnt.v % 65536), o1)
     ELSE IF td.code # -1 THEN fail(td.code, o2)
     ELSE loadTracks(f, o3, 0)

\* _fd.open(_fileName, O_READ): the card holds "A"; an SdFile that is open
\* cannot be opened again
CanOpen(name, isOpen) == name = "A" /\ ~isOpen

load(name, o) ==
  IF name = "" THEN [o EXCEPT !.code = 0]
  ELSE IF ~CanOpen(name, o.open) THEN [o EXCEPT !.code = 2]
  ELSE loadOpened(disk, o)

-----------------------------------------------------------------------------
(* Files.  A descriptor says how a file is put together; Encode gives its  *)
(* bytes.  The player only ever sees the bytes.                            *)

Chunk(magic, length, data) == [magic |-> magic, length |-> length, data |-> data]

EncodeChunk(c) == c.magic \o BigEndian(c.length, 4) \o c.data

Encode(d) ==
  d.magic \o BigEndian(d.hlen, 4) \o BigEndian(d.format, 2) \o BigEndian(d.ntrks, 2)
          \o BigEndian(d.division, 2) \o Concat([k \in 1..Len(d.chunks) |-> EncodeChunk(d.chunks[k])])

SmfFile(fmt, division, datas) ==
  [magic |-> MTHD_HDR, hlen |-> 6, format |-> fmt, ntrks |-> Len(datas), division |-> division,
   chunks |-> [k \in 1..Len(datas) |-> Chunk(MTRK_HDR, Len(datas[k]), datas[k])]]

EndOfTrack == <<0, 255, 47, 0>>

\* Set-Tempo(500000), note-on at delta 0, note-off at delta 48, End-of-Track; 48 ticks per quarter
NoteTrack == <<0, 255, 81, 3, 7, 161, 32,   0, 144, 60, 64,   48, 128, 60, 64>> \o EndOfTrack
OneTrackFile == SmfFile(0, 48, <<NoteTrack>>)

\* track 0: Set-Tempo(1000000), a program change, End-of-Track; track 1: a note two ticks long
SetupTrack == <<0, 255, 81, 3, 15, 66, 64,   0, 192, 5>> \o EndOfTrack
ShortNoteTrack == <<0, 145, 60, 64,   2, 129, 60, 64>> \o EndOfTrack
TwoTrackFile == SmfFile(1, 96, <<SetupTrack, ShortNoteTrack>>)

\* a SysEx event of declared length n behind lead byte `lead` at tick 1, End-of-Track at tick 2
SysexTrack(lead, n) ==
  <<1, lead, n>> \o [k \in 1..n |-> IF k = n THEN 247 ELSE k] \o <<1, 255, 47, 0>>
SysexFiles ==
  {SmfFile(0, 48, <<SysexTrack(lead, n)>>) : lead \in {240, 247}, n \in {3, 49, 50, 51, 60}}

\* a channel message and two running-status continuations, then End-of-Track, a tick apart
RunningTrack(status, twoBytes) ==
  (IF twoBytes THEN <<1, status, 60, 64,   1, 62, 65,   1, 64, 66>>
               ELSE <<1, status, 7,   1, 8,   1, 9>>) \o <<1, 255, 47, 0>>
RunningFiles ==
  {SmfFile(0, 48, <<RunningTrack(st, TRUE)>>) : st \in {144, 179, 225}}
    \cup {SmfFile(0, 48, <<RunningTrack(st, FALSE)>>) : st \in {194, 213}}

\* a program change and, in running status, as many more as one step can decode and one
\* beyond, all at delta 0, then End-of-Track
BurstTrack ==
  <<0, 192, 5>> \o Concat([k \in 1..EVENT_LOOP_LIMIT |-> <<0, k>>]) \o EndOfTrack
BurstFile == SmfFile(1, 96, <<BurstTrack, ShortNoteTrack>>)

PlayFiles == {OneTrackFile, TwoTrackFile} \cup SysexFiles \cup RunningFiles

-----------------------------------------------------------------------------
(* Construction: MD_MIDIFile::MD_MIDIFile -> initialise() *)

ZeroMachine ==
  [fdPos |-> 0, tempo |-> 0, tempoDelta |-> 0, timeSignature |-> <<0, 0>>,
   ticksPerQuarterNote |-> 0, tickTime |-> 0,
   track |-> [i \in 0..(MIDI_MAX_TRACKS - 1) |-> NewTrack],
   sink |-> <<>>, hung |-> FALSE, fed |-> 0,
   hooks |-> [midi |-> FALSE, sysex |-> FALSE, meta |-> FALSE], garbage |-> FALSE]

initialise ==
  setTimeSignature(
    setMicrosecondPerQuarterNote(
      setTempoAdjust(
        setTempo(
          setTicksPerQuarterNote(ZeroMachine, 48),
          120),
        0),
      500000),
    4, 4)

Snapshot ==
  [format |-> format, trackCount |-> trackCount, ticksPerQuarterNote |-> ticksPerQuarterNote,
   tickTime |-> tickTime, tempo |-> tempo, tempoDelta |-> tempoDelta,
   timeSignature |-> timeSignature, paused |-> paused, looping |-> looping,
   syncAtStart |-> syncAtStart, fileName |-> fileName, track |-> track]

\* The object as the constructor leaves it, with file "A" on the card.  initialise() sets
\* the MIDI and the SysEx hook to NULL and leaves _metaHandler as it finds it; `hooks` says
\* whether the sketch has registered the hooks, which it does once, in setup(), and
\* metaHooks holds what _metaHandler may be, TRUE standing for a pointer that is not null.
InitObject(files, priorities, hooks, metaHooks) ==
  /\ desc \in files
  /\ disk = Encode(desc)
  /\ fileName = ""
  /\ fdOpen = FALSE
  /\ fdPos = 0
  /\ format = 0
  /\ trackCount = 0
  /\ ticksPerQuarterNote = initialise.ticksPerQuarterNote
  /\ tempo = initialise.tempo
  /\ tempoDelta = initialise.tempoDelta
  /\ timeSignature = initialise.timeSignature
  /\ tickTime = initialise.tickTime
  /\ lastTickError = 0
  /\ lastTickCheckTime = 0
  /\ syncAtStart = FALSE
  /\ paused = FALSE
  /\ looping = FALSE
  /\ midiHandler = hooks
  /\ sysexHandler = hooks
  /\ metaHandler \in metaHooks
  /\ track = initialise.track
  /\ trackPriority \in priorities
  /\ now = 0
  /\ hung = FALSE
  /\ sink = <<>>
  /\ ret = [op |-> "new"]
  /\ ticksFed = 0
  /\ passes = <<>>
  /\ clk = [t0 |-> 0, err0 |-> 0, sum |-> 0, steady |-> FALSE]

\* the object of a sketch that registers all three hooks in setup() or, with its storage
\* zeroed before the constructor runs, none of them
InitWith(files, priorities, hooks) == InitObject(files, priorities, hooks, {hooks})

-----------------------------------------------------------------------------
(* Operations of MD_MIDIFile *)

\* the variables a machine record stands for
SetMachine(m) ==
  /\ fdPos' = m.fdPos
  /\ tempo' = m.tempo
  /\ tempoDelta' = m.tempoDelta
  /\ timeSignature' = m.timeSignature
  /\ ticksPerQuarterNote' = m.ticksPerQuarterNote
  /\ tickTime' = m.tickTime
  /\ track' = m.track
  /\ sink' = m.sink
  /\ hung' = m.hung
  /\ ticksFed' = m.fed

\* a change of the tick duration ends the period over which clock samples are summed
ClkAfter(c, tt) == IF tt = tickTime THEN c ELSE [c EXCEPT !.steady = FALSE]

SetFilename(name) ==
  /\ ~hung
  /\ fileName' = name
  /\ ret' = [op |-> "setFilename"]
  /\ UNCHANGED <<disk, desc, fdOpen, fdPos, format, trackCount, ticksPerQuarterNote, tempo,
                 tempoDelta, timeSignature, tickTime, lastTickError, lastTickCheckTime,
                 syncAtStart, paused, looping, midiHandler, sysexHandler, metaHandler, track,
                 trackPriority, intBits, now, hung, sink, ticksFed, passes, clk>>

SetMidiHandler(registered) ==
  /\ ~hung
  /\ midiHandler' = registered
  /\ ret' = [op |-> "setMidiHandler"]
  /\ UNCHANGED <<disk, desc, fileName, fdOpen, fdPos, format, trackCount, ticksPerQuarterNote,
                 tempo, tempoDelta, timeSignature, tickTime, lastTickError, lastTickCheckTime,
                 syncAtStart, paused, looping, sysexHandler, metaHandler, track,
                 trackPriority, intBits, now, hung, sink, ticksFed, passes, clk>>

SetSysexHandler(registered) ==
  /\ ~hung
  /\ sysexHandler' = registered
  /\ ret' = [op |-> "setSysexHandler"]
  /\ UNCHANGED <<disk, desc, fileName, fdOpen, fdPos, format, trackCount, ticksPerQuarterNote,
                 tempo, tempoDelta, timeSignature, tickTime, lastTickError, lastTickCheckTime,
                 syncAtStart, paused, looping, midiHandler, metaHandler, track,
                 trackPriority, intBits, now, hung, sink, ticksFed, passes, clk>>

SetMetaHandler(registered) ==
  /\ ~hung
  /\ metaHandler' = registered
  /\ ret' = [op |-> "setMetaHandler"]
  /\ UNCHANGED <<disk, desc, fileName, fdOpen, fdPos, format, trackCount, ticksPerQuarterNote,
                 tempo, tempoDelta, timeSignature, tickTime, lastTickError, lastTickCheckTime,
                 syncAtStart, paused, looping, midiHandler, sysexHandler, track,
                 trackPriority, intBits, now, hung, sink, ticksFed, passes, clk>>

SetTempo(t) ==
  /\ ~hung
  /\ SetMachine(setTempo(Machine, t))
  /\ clk' = ClkAfter(clk, setTempo(Machine, t).tickTime)
  /\ ret' = [op |-> "setTempo"]
  /\ UNCHANGED <<disk, desc, fileName, fdOpen, format, trackCount, lastTickError,
                 lastTickCheckTime, syncAtStart, paused, looping, midiHandler, sysexHandler,
                 metaHandler, trackPriority, intBits, now, passes>>

SetTempoAdjust(t) ==
  /\ ~hung
  /\ SetMachine(setTempoAdjust(Machine, t))
  /\ clk' = ClkAfter(clk, setTempoAdjust(Machine, t).tickTime)
  /\ ret' = [op |-> "setTempoAdjust"]
  /\ UNCHANGED <<disk, desc, fileName, fdOpen, format, trackCount, lastTickError,
                 lastTickCheckTime, syncAtStart, paused, looping, midiHandler, sysexHandler,
                 metaHandler, trackPriority, intBits, now, passes>>

SetTimeSignature(n, d) ==
  /\ ~hung
  /\ SetMachine(setTimeSignature(Machine, n, d))
  /\ clk' = ClkAfter(clk, setTimeSignature(Machine, n, d).tickTime)
  /\ ret' = [op |-> "setTimeSignature"]
  /\ UNCHANGED <<disk, desc, fileName, fdOpen, format, trackCount, lastTickError,
                 lastTickCheckTime, syncAtStart, paused, looping, midiHandler, sysexHandler,
                 metaHandler, trackPriority, intBits, now, passes>>

\* us is not 0: the division by 0 has no defined outcome
SetMicrosecondPerQuarterNote(us) ==
  /\ ~hung
  /\ SetMachine(setMicrosecondPerQuarterNote(Machine, us))
  /\ clk' = ClkAfter(clk, setMicrosecondPerQuarterNote(Machine, us).tickTime)
  /\ ret' = [op |-> "setMicrosecondPerQuarterNote", m |-> us]
  /\ UNCHANGED <<disk, desc, fileName, fdOpen, format, trackCount, lastTickError,
                 lastTickCheckTime, syncAtStart, paused, looping, midiHandler, sysexHandler,
                 metaHandler, trackPriority, intBits, now, passes>>

SetTicksPerQuarterNote(ticks) ==
  /\ ~hung
  /\ SetMachine(setTicksPerQuarterNote(Machine, ticks))
  /\ clk' = ClkAfter(clk, setTicksPerQuarterNote(Machine, ticks).tickTime)
  /\ ret' = [op |-> "setTicksPerQuarterNote"]
  /\ UNCHANGED <<disk, desc, fileName, fdOpen, format, trackCount, lastTickError,
                 lastTickCheckTime, syncAtStart, paused, looping, midiHandler, sysexHandler,
                 metaHandler, trackPriority, intBits, now, passes>>

Load ==
  /\ ~hung
  /\ LET o == load(fileName, Object)
     IN /\ format' = o.format
        /\ trackCount' = o.trackCount
        /\ fdOpen' = o.open
        /\ SetMachine(IF o.code = -1 THEN [o.m EXCEPT !.sink = <<>>, !.fed = 0] ELSE o.m)
        /\ ret' = [op |-> "load", val |-> o.code, name |-> fileName, wasOpen |-> fdOpen,
                   before |-> Snapshot]
        /\ clk' = ClkAfter(clk, o.m.tickTime)
        /\ passes' = IF o.code = -1 THEN <<>> ELSE passes
  /\ UNCHANGED <<disk, desc, fileName, lastTickError, lastTickCheckTime, syncAtStart, paused,
                 looping, midiHandler, sysexHandler, metaHandler, trackPriority, intBits, now>>

\* MD_MIDIFile::close
closeTracks(tr, count) ==
  [i \in DOMAIN tr |-> IF i < count THEN trackReset(tr[i]) ELSE tr[i]]

Close ==
  /\ ~hung
  /\ track' = closeTracks(track, trackCount)
  /\ trackCount' = 0
  /\ syncAtStart' = FALSE
  /\ paused' = FALSE
  /\ fileName' = ""
  /\ fdOpen' = FALSE
  /\ ret' = IF ret.op = "load" /\ ret.val = -1
            THEN [op |-> "close", afterLoad |-> TRUE, before |-> ret.before]
            ELSE [op |-> "close", afterLoad |-> FALSE]
  /\ UNCHANGED <<disk, desc, fdPos, format, ticksPerQuarterNote, tempo, tempoDelta,
                 timeSignature, tickTime, lastTickError, lastTickCheckTime, looping,
                 midiHandler, sysexHandler, metaHandler, trackPriority, intBits, now, hung, sink,
                 ticksFed, passes, clk>>

\* mutation of Pause: resuming does not ask for the tracks to be synchronised again
Pause_NoResync(bMode) ==
  /\ ~hung
  /\ paused' = bMode
  /\ ret' = [op |-> "pause"]
  /\ UNCHANGED <<disk, desc, fileName, fdOpen, fdPos, format, trackCount, ticksPerQuarterNote,
                 tempo, tempoDelta, timeSignature, tickTime, lastTickError, lastTickCheckTime,
                 syncAtStart, looping, midiHandler, sysexHandler, metaHandler, track,
                 trackPriority, intBits, now, hung, sink, ticksFed, passes, clk>>

\* MD_MIDIFile::pause
Pause(bMode) ==
  /\ ~hung
  /\ paused' = bMode
  /\ syncAtStart' = IF ~bMode THEN FALSE ELSE syncAtStart
  /\ ret' = [op |-> "pause"]
  /\ UNCHANGED <<disk, desc, fileName, fdOpen, fdPos, format, trackCount, ticksPerQuarterNote,
                 tempo, tempoDelta, timeSignature, tickTime, lastTickError, lastTickCheckTime,
                 looping, midiHandler, sysexHandler, metaHandler, track, trackPriority, intBits, now,
                 hung, sink, ticksFed, passes, clk>>

Looping(bMode) ==
  /\ ~hung
  /\ looping' = bMode
  /\ ret' = [op |-> "looping"]
  /\ UNCHANGED <<disk, desc, fileName, fdOpen, fdPos, format, trackCount, ticksPerQuarterNote,
                 tempo, tempoDelta, timeSignature, tickTime, lastTickError, lastTickCheckTime,
                 syncAtStart, paused, midiHandler, sysexHandler, metaHandler, track,
                 trackPriority, intBits, now, hung, sink, ticksFed, passes, clk>>

\* mutation of restart: every track is rewound, looping or not
restart_All(tr, count, loop) ==
  [i \in DOMAIN tr |-> IF i < count THEN trackRestart(tr[i]) ELSE tr[i]]

\* MD_MIDIFile::restart: the tracks after it
restart(tr, count, loop) ==
  LET first == IF loop /\ count > 1 THEN 1 ELSE 0
  IN [i \in DOMAIN tr |-> IF i >= first /\ i < count THEN trackRestart(tr[i]) ELSE tr[i]]

Restart ==
  /\ ~hung
  /\ track' = restart(track, trackCount, looping)
  /\ syncAtStart' = FALSE
  /\ ticksFed' = 0
  /\ passes' = IF track' # track THEN Append(passes, looping) ELSE passes
  /\ ret' = [op |-> "restart", looping |-> looping, before |-> track]
  /\ UNCHANGED <<disk, desc, fileName, fdOpen, fdPos, format, trackCount, ticksPerQuarterNote,
                 tempo, tempoDelta, timeSignature, tickTime, lastTickError, lastTickCheckTime,
                 paused, looping, midiHandler, sysexHandler, metaHandler, trackPriority, intBits, now,
                 hung, sink, clk>>

\* mutation of allEndOfTrack: one track at its end is enough
allEndOfTrack_Any(tr, count) == \E i \in 0..(count - 1) : tr[i].endOfTrack

\* the loop of isEOF: every track has reached its end
allEndOfTrack(tr, count) == \A i \in 0..(count - 1) : tr[i].endOfTrack

\* mutation of isEOF: the looping flag is ignored when every track has ended
isEOF_NoLoop(tr, count, loop) ==
  [val |-> allEndOfTrack(tr, count), restarted |-> FALSE]


\* MD_MIDIFile::isEOF: [val, restarted]
isEOF(tr, count, loop) ==
  LET bEof == allEndOfTrack(tr, count)
  IN IF bEof /\ loop THEN [val |-> FALSE, restarted |-> TRUE]
     ELSE [val |-> bEof, restarted |-> FALSE]

IsEOF ==
  /\ ~hung
  /\ LET r == isEOF(track, trackCount, looping)
     IN /\ track' = IF r.restarted THEN restart(track, trackCount, looping) ELSE track
        /\ syncAtStart' = IF r.restarted THEN FALSE ELSE syncAtStart
        /\ ticksFed' = IF r.restarted THEN 0 ELSE ticksFed
        /\ passes' = IF track' # track THEN Append(passes, looping) ELSE passes
        /\ ret' = [op |-> "isEOF", val |-> r.val, restarted |-> r.restarted,
                   looping |-> looping, before |-> track]
  /\ UNCHANGED <<disk, desc, fileName, fdOpen, fdPos, format, trackCount, ticksPerQuarterNote,
                 tempo, tempoDelta, timeSignature, tickTime, lastTickError, lastTickCheckTime,
                 paused, looping, midiHandler, sysexHandler, metaHandler, trackPriority, intBits, now,
                 hung, sink, clk>>

\* mutation of synchTracks: the tracks are rewound, not just synchronised
synchTracks_Rewind(tr, count) ==
  [i \in DOMAIN tr |-> IF i < count THEN trackRestart(tr[i]) ELSE tr[i]]

\* MD_MIDIFile::synchTracks
synchTracks(tr, count) ==
  [i \in DOMAIN tr |-> IF i < count THEN trackSyncTime(tr[i]) ELSE tr[i]]

\* mutation of GetNextEvent: the paused flag is not looked at
GetNextEvent_IgnorePause(garbage) ==
  /\ ~hung
  /\ LET sync == ~syncAtStart
         tr0 == IF sync THEN synchTracks(track, trackCount) ELSE track
         last0 == IF sync THEN now ELSE lastTickCheckTime
         tc == tickClock(lastTickError, last0, now, tickTime)
         m0 == [Machine EXCEPT !.track = tr0, !.fed = @ + tc.ticks, !.garbage = garbage]
         m1 == IF tc.ticks = 0 THEN m0
               ELSE processEvents(File, m0, trackCount, tc.ticks, trackPriority, garbage)
         c0 == IF sync THEN [t0 |-> now, err0 |-> lastTickError, sum |-> 0, steady |-> TRUE]
               ELSE clk
     IN /\ SetMachine(m1)
        /\ lastTickError' = tc.err
        /\ lastTickCheckTime' = tc.last
        /\ syncAtStart' = TRUE
        /\ clk' = ClkAfter([c0 EXCEPT !.sum = @ + tc.ticks], tickTime')
        /\ ret' = [op |-> "getNextEvent", val |-> (tc.ticks # 0), sampled |-> TRUE,
                   ticks |-> tc.ticks, at |-> now]
  /\ UNCHANGED <<disk, desc, fileName, fdOpen, format, trackCount, paused, looping,
                 midiHandler, sysexHandler, metaHandler, trackPriority, intBits, now, passes>>

\* MD_MIDIFile::getNextEvent at the instant `now`; garbage as in processEvents and in the
\* default case of parseMeta
GetNextEvent(garbage) ==
  /\ ~hung
  /\ IF paused
     THEN /\ ret' = [op |-> "getNextEvent", val |-> FALSE, sampled |-> FALSE, ticks |-> 0,
                      at |-> now]
          /\ UNCHANGED <<fdPos, tempo, tempoDelta, timeSignature, ticksPerQuarterNote, tickTime,
                         track, sink, hung, ticksFed, lastTickError, lastTickCheckTime,
                         syncAtStart, clk>>
     ELSE LET sync == ~syncAtStart
              tr0 == IF sync THEN synchTracks(track, trackCount) ELSE track
              last0 == IF sync THEN now ELSE lastTickCheckTime
              tc == tickClock(lastTickError, last0, now, tickTime)
              m0 == [Machine EXCEPT !.track = tr0, !.fed = @ + tc.ticks, !.garbage = garbage]
              m1 == IF tc.ticks = 0 THEN m0
                    ELSE processEvents(File, m0, trackCount, tc.ticks, trackPriority, garbage)
              c0 == IF sync THEN [t0 |-> now, err0 |-> lastTickError, sum |-> 0, steady |-> TRUE]
                    ELSE clk
          IN /\ SetMachine(m1)
             /\ lastTickError' = tc.err
             /\ lastTickCheckTime' = tc.last
             /\ syncAtStart' = TRUE
             /\ clk' = ClkAfter([c0 EXCEPT !.sum = @ + tc.ticks], tickTime')
             /\ ret' = [op |-> "getNextEvent", val |-> (tc.ticks # 0), sampled |-> TRUE,
                        ticks |-> tc.ticks, at |-> now]
  /\ UNCHANGED <<disk, desc, fileName, fdOpen, format, trackCount, paused, looping,
                 midiHandler, sysexHandler, metaHandler, trackPriority, intBits, now, passes>>

\* the wall clock moves on by d microseconds between two calls
Advance(d, limit) ==
  /\ ~hung
  /\ d > 0
  /\ now + d <= limit
  /\ now' = now + d
  /\ UNCHANGED <<disk, desc, fileName, fdOpen, fdPos, format, trackCount, ticksPerQuarterNote,
                 tempo, tempoDelta, timeSignature, tickTime, lastTickError, lastTickCheckTime,
                 syncAtStart, paused, looping, midiHandler, sysexHandler, metaHandler, track,
                 trackPriority, intBits, hung, sink, ret, ticksFed, passes, clk>>

-------------------------------------------------------------------------------------------------------------------------------------------------
(* Playback of the one-track file, one tick of wall-clock time at a time,  *)
(* with every hook registered.  The origin of micros() is arbitrary: time  *)
(* is counted from the moment the file is opened, and the control loop     *)
(* polls before a second tick becomes due.                                 *)

\* enough time has passed since the last clock sample for tickClock to report a tick
TickDue == lastTickError + now - lastTickCheckTime >= tickTime

InitPlay == intBits = 16 /\ InitWith({OneTrackFile}, {TRUE}, TRUE)

NextPlay ==
  \/ SetFilename("A")
  \/ Load
  \/ \E b \in BOOLEAN : Looping(b)
  \/ IsEOF
  \/ \E garbage \in (IF trackPriority THEN {FALSE} ELSE BOOLEAN) : GetNextEvent(garbage)
  \/ (fdOpen /\ ~TickDue /\ Advance(tickTime, MaxTime))

SpecPlay == InitPlay /\ [][NextPlay]_vars


\* the channel events handed to the MIDI hook so far, oldest first
ChannelEvents == SelectSeq(sink, LAMBDA e : e.kind = "midi")

\* the tick count of the first feeding step at which the ticks fed have reached the sum of
\* the delta-times of NoteTrack up to a channel event (0 for the note-on, 48 for the note-off)
DueStep(e) == IF e.data[1] = 144 THEN 1 ELSE 48

\* C5: playing the one-track file a tick at a time on its first pass, the MIDI hook gets at
\* most two channel events, each in the first step where the ticks fed have reached the sum
\* of the delta-times up to it, the note-off exactly 48 ticks after the note-on, and once
\* isEOF has answered TRUE it has had exactly the two
C5_EventsAtDeltaSums ==
  (fdOpen /\ passes = <<>>) =>
    /\ Len(ChannelEvents) <= 2
    /\ \A k \in 1..Len(ChannelEvents) : ChannelEvents[k].at = DueStep(ChannelEvents[k])
    /\ (Len(ChannelEvents) = 2 => ChannelEvents[2].at - ChannelEvents[1].at = 48)
    /\ (ret.op = "isEOF" /\ ret.val => Len(ChannelEvents) = 2)

\* C6: with looping on isEOF never answers TRUE: at the end of every track it restarts the
\* tracks (track 0 of a one-track file is back at offset 0, not ended, and the next poll
\* re-synchronises) and answers FALSE; each completed pass of the one-track file has handed
\* its note-on and note-off to the MIDI hook once more
C6_LoopingRestarts ==
  /\ (ret.op = "isEOF" /\ ret.looping) =>
       /\ ret.val = FALSE
       /\ ret.restarted = allEndOfTrack(ret.before, trackCount)
       /\ (ret.restarted /\ trackCount = 1) =>
            (track[0].currOffset = 0 /\ ~track[0].endOfTrack /\ ~syncAtStart)
  /\ (fdOpen /\ trackCount = 1 /\ track[0].endOfTrack) =>
       /\ Len(ChannelEvents) = 2 * (Len(passes) + 1)
       /\ \A k \in 1..Len(ChannelEvents) :
            ChannelEvents[k].data = (IF k % 2 = 1 THEN <<144, 60, 64>> ELSE <<128, 60, 64>>)

\* C6 witness: isEOF restarted the finished file and its second pass has been played out
C6_SecondPassPlayed ==
  /\ fdOpen /\ looping /\ Len(passes) = 1
  /\ track[0].endOfTrack
  /\ Len(ChannelEvents) = 4

-----------------------------------------------------------------------------
(* Loading and closing, over a catalogue of well-formed and malformed      *)
(* containers.  Every file of the catalogue has a complete 14-byte header  *)
(* chunk; its track chunks may be missing, carry a wrong magic, or declare *)
(* a length that runs past the end of the file.                            *)

\* what a declared track length is raised by to make it overrun the file
Overrun == 40

\* 0xE828: 24 frames per second, 40 ticks per frame; 0xE628: no such frame rate
SmpteDivision == 59432
BadSmpteDivision == 58920

TrackChunks ==
  {Chunk(MTRK_HDR, Len(EndOfTrack), EndOfTrack),
   Chunk(MTHD_HDR, Len(EndOfTrack), EndOfTrack),
   Chunk(MTRK_HDR, Len(EndOfTrack) + Overrun, EndOfTrack)}

LoadFiles ==
  {[magic |-> mg, hlen |-> hl, format |-> fmt, ntrks |-> n, division |-> dv, chunks |-> cs] :
     mg \in {MTHD_HDR, MTRK_HDR}, hl \in {6, 5}, fmt \in {0, 1, 2},
     n \in {0, 1, 2, MIDI_MAX_TRACKS + 1}, dv \in {96, SmpteDivision, BadSmpteDivision},
     cs \in UNION {[1..k -> TrackChunks] : k \in 0..2}}

InitLoad == intBits = 16 /\ InitWith(LoadFiles, {TRUE}, TRUE)

NextLoad ==
  \/ \E name \in {"", "A", "B"} : SetFilename(name)
  \/ Load
  \/ Close

SpecLoad == InitLoad /\ [][NextLoad]_vars

\* where track chunk k of a file begins, by the file's make-up
RECURSIVE ChunkStart(_, _)
ChunkStart(d, k) ==
  IF k = 1 THEN 14 ELSE ChunkStart(d, k - 1) + 8 + Len(d.chunks[k - 1].data)

\* what is wrong with track chunk k: 0 its magic is not MTrk (or it is not there), 1 its
\* declared length runs past the end of the file, -1 nothing
ChunkFault(d, k) ==
  IF k > Len(d.chunks) THEN 0
  ELSE IF d.chunks[k].magic # MTRK_HDR THEN 0
  ELSE IF ChunkStart(d, k) + 8 + d.chunks[k].length > Len(Encode(d)) THEN 1
  ELSE -1

\* the first check of the documented order that fails, -1 when none does
HeaderFault(name, wasOpen, d) ==
  IF name = "" THEN 0
  ELSE IF name # "A" \/ wasOpen THEN 2
  ELSE IF d.magic # MTHD_HDR THEN 3
  ELSE IF d.hlen # 6 THEN 4
  ELSE IF d.format \notin {0, 1} THEN 5
  ELSE IF d.format = 0 /\ d.ntrks # 1 THEN 6
  ELSE IF d.ntrks > MIDI_MAX_TRACKS THEN 7
  ELSE IF d.division >= 32768 /\ (d.division \div 256) \notin {232, 231, 227, 226} THEN 7
  ELSE -1

FaultyChunks(d) == {k \in 1..d.ntrks : ChunkFault(d, k) # -1}

FirstFaulty(d) == CHOOSE k \in FaultyChunks(d) : \A j \in FaultyChunks(d) : k <= j

\* C1: load answers with the code of the first failing check, in the order 0, 2, 3, 4, 5, 6,
\* 7, and answers -1 only when no check fails and every track chunk of the file is sound
C1_FirstFailingCheck ==
  ret.op = "load" =>
    LET h == HeaderFault(ret.name, ret.wasOpen, desc)
    IN /\ (h # -1 => ret.val = h)
       /\ (ret.val = -1 => (h = -1 /\ FaultyChunks(desc) = {}))

\* C2: behind a valid header the tracks are loaded in index order; at the first chunk i
\* (from 0) that is faulty load answers 10*(i+1) for a wrong magic and 10*(i+1)+1 for a
\* length that overruns the file, and the tracks after i are left as they were
C2_FirstFaultyChunk ==
  (ret.op = "load" /\ HeaderFault(ret.name, ret.wasOpen, desc) = -1
     /\ FaultyChunks(desc) # {}) =>
    LET k == FirstFaulty(desc)
    IN /\ ret.val = (10 * k) + ChunkFault(desc, k)
       /\ \A j \in 1..(k - 1) : /\ track[j - 1].startOffset = ChunkStart(desc, j) + 8
                                /\ track[j - 1].length = desc.chunks[j].length
       /\ \A j \in k..(MIDI_MAX_TRACKS - 1) : track[j] = ret.before.track[j]

\* C3: after load of a sound file of one or more tracks and close straight after it, the format, track count,
\* ticks per quarter note, tick duration, tempo, time signature, the paused, looping and
\* sync flags and every track are what they were before the load (the file name, which
\* load needs and close clears, is left out of the comparison)
C3_LoadCloseRestores ==
  (ret.op = "close" /\ ret.afterLoad /\ FaultyChunks(desc) = {}
     /\ desc.ntrks >= 1 /\ Len(desc.chunks) = desc.ntrks) =>
    [Snapshot EXCEPT !.fileName = ""] = [ret.before EXCEPT !.fileName = ""]

-----------------------------------------------------------------------------
(* The tick clock on its own: no file is loaded, the setters choose short  *)
(* tick durations, and the control loop polls at long, irregular           *)
(* intervals.                                                              *)

\* the longest interval between two polls, in microseconds
LongWait == 65536

\* the instant up to which the clock is followed
MaxClockTime == (2 * LongWait) + 2

ClockSteps == {LongWait - 1, LongWait, LongWait + 1}

InitClock == intBits = 16 /\ InitWith({OneTrackFile}, {TRUE}, TRUE)

NextClock ==
  \/ SetTempo(60000)
  \/ \E ticks \in {500, 1000} : SetTicksPerQuarterNote(ticks)
  \/ GetNextEvent(FALSE)
  \/ \E d \in ClockSteps : Advance(d, MaxClockTime)

SpecClock == InitClock /\ [][NextClock]_vars

\* C10: while the tick duration stays the same, the ticks reported by the samples taken
\* since the clock was synchronised (with no remainder carried in) sum to K whenever the
\* time sampled amounts to exactly K tick durations
C10_TicksSumToK ==
  (ret.op = "getNextEvent" /\ ret.sampled /\ ret.at = now /\ clk.steady /\ clk.err0 = 0
     /\ (now - clk.t0) % tickTime = 0) =>
    clk.sum = (now - clk.t0) \div tickTime

\* the time tickClock finds elapsed at the instant `now`: since the last sample, with the
\* error carried from it, or since this instant when the tracks are to be synchronised first
ElapsedTime == lastTickError + now - (IF syncAtStart THEN lastTickCheckTime ELSE now)

\* C15: getNextEvent answers TRUE exactly when the player is not paused and the time elapsed
\* since the last sample amounts to one tick or more; when it answers FALSE no hook is
\* called and no track changes its offset or its end-of-track flag
C15_TrueIffTickElapsed ==
  [][GetNextEvent(FALSE) =>
       /\ ret'.val = (~paused /\ ElapsedTime >= tickTime)
       /\ ~ret'.val =>
            /\ sink' = sink
            /\ \A i \in 0..(MIDI_MAX_TRACKS - 1) :
                 /\ track'[i].currOffset = track[i].currOffset
                 /\ track'[i].endOfTrack = track[i].endOfTrack]_vars

-----------------------------------------------------------------------------
(* Sessions with the two-track file: loading, playing a tick at a time,    *)
(* looping, restarting and closing, in any order.                          *)

\* the instant up to which a session is followed: two passes of the two-track file
MaxLoopTime == 37000

InitLoop == intBits = 16 /\ InitWith({TwoTrackFile}, {TRUE}, TRUE)

NextLoop ==
  \/ SetFilename("A")
  \/ Load
  \/ Close
  \/ \E b \in BOOLEAN : Looping(b)
  \/ Restart
  \/ IsEOF
  \/ GetNextEvent(FALSE)
  \/ (fdOpen /\ ~TickDue /\ Advance(tickTime, MaxLoopTime))

SpecLoop == InitLoop /\ [][NextLoop]_vars

\* C4: straight after a load that succeeds the tempo is 120 and the time signature 4/4,
\* whatever went before on the same object
C4_DefaultsAfterLoad ==
  (ret.op = "load" /\ ret.val = -1) => (tempo = 120 /\ timeSignature = <<4, 4>>)

\* what the hooks were handed for track i, oldest first
TrackSink(i) == SelectSeq(sink, LAMBDA e : e.track = i)

\* C7: a restart of a file of several tracks with looping on, called directly or by isEOF,
\* leaves the offset and end-of-track flag of track 0 as they are and rewinds every other
\* track; and as long as every restart since the load was made with looping on, no event of
\* track 0 is handed to a hook twice
C7_Track0NotRewound ==
  /\ ((ret.op = "restart" \/ (ret.op = "isEOF" /\ ret.restarted))
        /\ ret.looping /\ trackCount > 1) =>
       /\ track[0].currOffset = ret.before[0].currOffset
       /\ track[0].endOfTrack = ret.before[0].endOfTrack
       /\ \A i \in 1..(trackCount - 1) :
            track[i].currOffset = 0 /\ ~track[i].endOfTrack /\ track[i].elapsedTicks = 0
  /\ (fdOpen /\ trackCount > 1 /\ \A k \in 1..Len(passes) : passes[k]) =>
       \A j, k \in 1..Len(TrackSink(0)) :
          j # k => <<TrackSink(0)[j].kind, TrackSink(0)[j].size, TrackSink(0)[j].data>>
                     # <<TrackSink(0)[k].kind, TrackSink(0)[k].size, TrackSink(0)[k].data>>

\* C7 witness: looping was on at the restart that followed the first pass, track 0 had been
\* played to its end before it, and the second pass has played track 1 again
C7_SecondPassWithoutTrack0 ==
  /\ fdOpen /\ trackCount = 2
  /\ Len(passes) = 1 /\ passes[1]
  /\ Len(TrackSink(0)) = 3
  /\ track[0].endOfTrack /\ track[0].currOffset > 0
  /\ Len(SelectSeq(TrackSink(1), LAMBDA e : e.kind = "midi")) = 4

-----------------------------------------------------------------------------
(* Decoding of the SysEx and running-status files, a tick at a time.       *)

\* the instant up to which decoding is followed: five ticks of 10416 us and a bit
MaxDecodeTime == 55000

InitDecode == intBits = 16 /\ InitWith(SysexFiles \cup RunningFiles, {TRUE}, TRUE)

NextDecode ==
  \/ SetFilename("A")
  \/ Load
  \/ IsEOF
  \/ GetNextEvent(FALSE)
  \/ (fdOpen /\ ~TickDue /\ Advance(tickTime, MaxDecodeTime))

SpecDecode == InitDecode /\ [][NextDecode]_vars

SysexEvents == SelectSeq(sink, LAMBDA e : e.kind = "sysex")

\* the length a SysEx file declares for its event
DeclaredLength(d) == d.chunks[1].data[3]

\* C8: a SysEx event that declares more bytes than the payload holds is handed to the hook
\* exactly once, with a size equal to the capacity of the payload, and the track goes on:
\* it is neither ended nor stuck
C8_TruncatedSysexSize ==
  (fdOpen /\ desc \in SysexFiles /\ DeclaredLength(desc) > SYSEX_DATA_SIZE) =>
    /\ Len(SysexEvents) = (IF ticksFed >= 1 THEN 1 ELSE 0)
    /\ \A k \in 1..Len(SysexEvents) :
         SysexEvents[k].size = SYSEX_DATA_SIZE /\ Len(SysexEvents[k].data) = SYSEX_DATA_SIZE
    /\ ~hung
    /\ (ticksFed = 1 => ~track[0].endOfTrack)

\* the bytes of the only track of a file
TrackData(d) == d.chunks[1].data

\* the size of the channel messages of a running-status file: status byte and parameters
MessageSize(d) == IF TrackData(d)[2] \in 192..223 THEN 2 ELSE 3

\* where the k-th message of a running-status track begins (its delta-time), from 1
MessageStart(d, k) == IF k = 1 THEN 1 ELSE 2 + ((k - 1) * MessageSize(d))

\* C9: a channel message with a status byte and two running-status continuations behind it
\* give three channel events of the same channel, command and size; the first parameter of
\* a continuation is the byte in its status position, the others follow it in the file, and
\* a continuation takes size-1 bytes of the track behind its delta-time
C9_RunningStatus ==
  (fdOpen /\ desc \in RunningFiles) =>
    LET d == TrackData(desc)
        size == MessageSize(desc)
    IN /\ Len(ChannelEvents) = Min(ticksFed, 3)
       /\ \A k \in 1..Len(ChannelEvents) :
            /\ ChannelEvents[k].channel = d[2] % 16
            /\ ChannelEvents[k].size = size
            /\ ChannelEvents[k].data[1] = d[2] - (d[2] % 16)
       /\ \A k \in 2..Len(ChannelEvents) :
            /\ ChannelEvents[k].data[2] = d[MessageStart(desc, k) + 1]
            /\ \A j \in 2..size :
                 ChannelEvents[k].data[j] = d[MessageStart(desc, k) + j - 1]
       /\ (ticksFed \in 1..3) =>
            track[0].currOffset = MessageStart(desc, ticksFed + 1) - 1

\* C9 witness: both continuations have been decoded and End-of-Track was found behind them
C9_ThreeEventsThenEnd ==
  /\ fdOpen /\ desc \in RunningFiles
  /\ Len(ChannelEvents) = 3
  /\ ChannelEvents[3].data[2] = TrackData(desc)[MessageStart(desc, 3) + 1]
  /\ track[0].endOfTrack

-----------------------------------------------------------------------------
(* readVarLen on its own: the descriptor is open on a file that holds a    *)
(* variable-length quantity somewhere in it, and is positioned on its      *)
(* first byte.                                                             *)

\* the bytes quantities are made of: with the top bit set, and with it clear
ContinuationBytes == {128, 129, 255}
FinalBytes == {0, 1, 127}

\* b1..bn, 1 <= n <= 4, b1..b(n-1) with the top bit set and bn with it clear
Quantities ==
  UNION {{c \o <<b>> : c \in [1..k -> ContinuationBytes], b \in FinalBytes} : k \in 0..3}

\* a quantity cut short by the end of the file
CutQuantities == UNION {[1..k -> ContinuationBytes] : k \in 1..2}

VarLenFiles ==
  {[pad |-> pd, vlq |-> q, rest |-> rs] :
      pd \in {<<>>, <<129>>}, q \in Quantities, rs \in {<<>>, <<0>>, <<129, 0>>}}
    \cup {[pad |-> pd, vlq |-> q, rest |-> <<>>] : pd \in {<<>>, <<129>>}, q \in CutQuantities}

InitVarLen ==
  /\ intBits = 16
  /\ desc \in VarLenFiles
  /\ disk = desc.pad \o desc.vlq \o desc.rest
  /\ fileName = "A"
  /\ fdOpen = TRUE
  /\ fdPos = Len(desc.pad)
  /\ format = 0
  /\ trackCount = 0
  /\ ticksPerQuarterNote = initialise.ticksPerQuarterNote
  /\ tempo = initialise.tempo
  /\ tempoDelta = initialise.tempoDelta
  /\ timeSignature = initialise.timeSignature
  /\ tickTime = initialise.tickTime
  /\ lastTickError = 0
  /\ lastTickCheckTime = 0
  /\ syncAtStart = FALSE
  /\ paused = FALSE
  /\ looping = FALSE
  /\ midiHandler = FALSE
  /\ sysexHandler = FALSE
  /\ metaHandler = FALSE
  /\ track = initialise.track
  /\ trackPriority = TRUE
  /\ now = 0
  /\ hung = FALSE
  /\ sink = <<>>
  /\ ret = [op |-> "new"]
  /\ ticksFed = 0
  /\ passes = <<>>
  /\ clk = [t0 |-> 0, err0 |-> 0, sum |-> 0, steady |-> FALSE]

\* readVarLen(&_fd) at the current position
ReadVarLen ==
  /\ ~hung
  /\ fdOpen
  /\ ret.op = "new"
  /\ LET r == readVarLen(File, fdPos)
     IN /\ fdPos' = r.pos
        /\ hung' = r.hang
        /\ ret' = [op |-> "readVarLen", val |-> r.v, from |-> fdPos]
  /\ UNCHANGED <<disk, desc, fileName, fdOpen, format, trackCount, ticksPerQuarterNote, tempo,
                 tempoDelta, timeSignature, tickTime, lastTickError, lastTickCheckTime,
                 syncAtStart, paused, looping, midiHandler, sysexHandler, metaHandler, track,
                 trackPriority, intBits, now, sink, ticksFed, passes, clk>>

NextVarLen == ReadVarLen

SpecVarLen == InitVarLen /\ [][NextVarLen]_vars

\* the sum of (bi & 0x7F) * 128^(n-i) over the bytes b1..bn of q
RECURSIVE VarLenSum(_)
VarLenSum(q) ==
  IF q = <<>> THEN 0
  ELSE ((Head(q) % 128) * (128 ^ (Len(q) - 1))) + VarLenSum(Tail(q))

-----------------------------------------------------------------------------
(* Pausing and resuming while the one-track file plays.  The control loop  *)
(* polls at least once per tick while the player runs, half a tick or a    *)
(* tick after the poll before; while the player is paused the clock runs   *)
(* on whether the loop polls or not.                                       *)

\* the instant up to which a session is followed: eight ticks of 10416 us and a bit
MaxPauseTime == 84000

InitPause == intBits = 16 /\ InitWith({OneTrackFile}, {TRUE}, TRUE)

NextPause ==
  \/ SetFilename("A")
  \/ Load
  \/ \E b \in BOOLEAN : Pause(b)
  \/ GetNextEvent(FALSE)
  \/ \E d \in {tickTime \div 2, tickTime} :
       fdOpen /\ (paused \/ ~TickDue) /\ Advance(d, MaxPauseTime)

SpecPause == InitPause /\ [][NextPause]_vars

\* C12: a call of getNextEvent while the player is paused answers FALSE and changes neither
\* a track, nor what the hooks were handed, nor the last sample time, the carried error,
\* the tick duration or the sync flag, whatever the clock shows
C12_PausedStepIsNoOp ==
  [][(paused /\ GetNextEvent(FALSE)) =>
       /\ ret'.val = FALSE
       /\ UNCHANGED <<track, sink, fdPos, ticksFed, lastTickCheckTime, lastTickError, tickTime,
                      syncAtStart>>]_vars

\* C12 witness: the paused player was polled when three ticks or more had gone by since the
\* last sample, in the middle of the file
C12_PolledWhilePaused ==
  /\ paused /\ fdOpen /\ syncAtStart
  /\ ret.op = "getNextEvent" /\ ret.at = now /\ ~ret.val
  /\ now - lastTickCheckTime >= 3 * tickTime
  /\ ticksFed >= 1 /\ ~track[0].endOfTrack

\* the time the samples since the last synchronisation have accounted for, in ticks
\* reported and error carried, is the time from the synchronisation to the last sample
\* plus the error carried into it
TicksSinceSync ==
  (clk.steady /\ syncAtStart) =>
    (tickTime * clk.sum) + lastTickError = clk.err0 + (lastTickCheckTime - clk.t0)

\* C13: resuming asks for a synchronisation; the first poll after it takes the instant of
\* the poll as the last sample time and reports no more ticks than the error carried over
\* the pause holds; and the ticks reported from then on account for the time from that
\* poll on and the carried error, and for nothing else
C13_PauseNotCredited ==
  [][/\ (paused /\ ~paused') => ~syncAtStart'
     /\ (~paused /\ ~syncAtStart /\ GetNextEvent(FALSE)) =>
          /\ clk'.t0 = now /\ clk'.err0 = lastTickError
          /\ ret'.ticks * tickTime <= lastTickError
          /\ lastTickCheckTime' = now
     /\ TicksSinceSync']_vars

\* C13 witness: after a pause of two ticks or more the player was resumed and has reported
\* a tick again, and the ticks fed since the load fall short of the time since the load by
\* the length of the pause
C13_ResumedAndTicking ==
  /\ fdOpen /\ ~paused /\ syncAtStart
  /\ ret.op = "getNextEvent" /\ ret.ticks >= 1
  /\ clk.t0 >= 3 * tickTime
  /\ ticksFed >= 2
  /\ (ticksFed + 2) * tickTime <= now

-----------------------------------------------------------------------------
(* Scheduling by track priority: the two-track file and the burst file,    *)
(* polled once the clock has moved on by one tick or by two.               *)

\* the instant up to which a session is followed
MaxSchedTime == 45000

InitSched == intBits = 16 /\ InitWith({TwoTrackFile, BurstFile}, {TRUE}, TRUE)

NextSched ==
  \/ SetFilename("A")
  \/ Load
  \/ \E b \in BOOLEAN : Looping(b)
  \/ IsEOF
  \/ GetNextEvent(FALSE)
  \/ \E k \in 1..2 : fdOpen /\ ~TickDue /\ Advance(k * tickTime, MaxSchedTime)

SpecSched == InitSched /\ [][NextSched]_vars

\* every variable of the player but the record of the last call
PlayerState ==
  <<disk, fileName, fdOpen, fdPos, format, trackCount, ticksPerQuarterNote, tempo, tempoDelta,
    timeSignature, tickTime, lastTickError, lastTickCheckTime, syncAtStart, paused, looping,
    midiHandler, sysexHandler, metaHandler, track, sink, hung>>

\* C14: with looping off isEOF answers TRUE exactly when the end-of-track flag of every
\* loaded track is set, and changes nothing
C14_FinishedIffAllEnded ==
  [][(~looping /\ IsEOF) =>
       /\ ret'.val = (\A i \in 0..(trackCount - 1) : track[i].endOfTrack)
       /\ UNCHANGED PlayerState]_vars

\* C14 witness: isEOF was asked with looping off when track 0 had ended and track 1 had not
C14_AskedMidFile ==
  /\ ret.op = "isEOF" /\ ~ret.looping /\ ~ret.val
  /\ fdOpen /\ trackCount = 2
  /\ track[0].endOfTrack /\ ~track[1].endOfTrack

\* the delta-time in front of the next event of track i, as the file has it
NextDelta(i) == readVarLen(disk, track[i].startOffset + track[i].currOffset).v

\* track i has an event whose time has come
EventDue(i) == ~track[i].endOfTrack /\ track[i].elapsedTicks >= NextDelta(i)

\* how many events of track i the hooks were handed in the step that brought the ticks
\* fed to n
DispatchedAt(i, n) == Cardinality({k \in 1..Len(sink) : sink[k].track = i /\ sink[k].at = n})

\* the sum of the delta-times in front of the events track i has given out: in the
\* two-track file and in the burst file only the note-off has a delta-time that is not 0,
\* and it is 2
DeltasConsumed(i) ==
  2 * Cardinality({k \in 1..Len(sink) :
                     sink[k].track = i /\ sink[k].kind = "midi" /\ sink[k].data[1] = 128})

\* C20: by track priority, on the first pass of a file, the events come out step by step
\* and within a step track by track in index order; a track that has not ended has been
\* credited the ticks of every step once (its elapsed ticks are the ticks fed less the
\* delta-times it has used up); after a step that fed ticks a track has an event left that
\* is due only if the step took 100 events from it, and no step takes more than 100
C20_TrackByTrack ==
  (fdOpen /\ passes = <<>>) =>
    /\ \A i \in 0..(trackCount - 1) :
         ~track[i].endOfTrack => track[i].elapsedTicks = ticksFed - DeltasConsumed(i)
    /\ \A j, k \in 1..Len(sink) :
         j < k => /\ sink[j].at <= sink[k].at
                  /\ (sink[j].at = sink[k].at => sink[j].track <= sink[k].track)
    /\ \A i \in 0..(trackCount - 1) : \A n \in 1..ticksFed :
         DispatchedAt(i, n) <= EVENT_LOOP_LIMIT
    /\ (ret.op = "getNextEvent" /\ ret.val) =>
         \A i \in 0..(trackCount - 1) :
            EventDue(i) => DispatchedAt(i, ticksFed) = EVENT_LOOP_LIMIT

\* C20 witness: a step took 100 events from track 0 of the burst file and went on to
\* track 1, leaving the rest of track 0 for the next step
C20_CapReached ==
  /\ fdOpen /\ desc = BurstFile /\ passes = <<>>
  /\ ret.op = "getNextEvent" /\ ret.val
  /\ DispatchedAt(0, ticksFed) = EVENT_LOOP_LIMIT
  /\ EventDue(0)
  /\ DispatchedAt(1, ticksFed) >= 1

-----------------------------------------------------------------------------
(* The setters of the time base on their own, in a build of either width   *)
(* of int.  No file is loaded and the clock stands still.                  *)

TempoInputs == {0, 50, 120, 65535}
AdjustInputs == {-200, -100, 0, 100}
TicksInputs == {0, 96}
SignatureInputs == {<<4, 4>>, <<6, 8>>, <<4, 0>>}

\* microseconds per quarter note: the least and the greatest value of 24 bits that is not
\* 0, the default, and values that give a tempo above and below 2^16
TempoValues == {1, 500, 500000, 1000000, 16777215}

InitSetters == intBits \in {16, 32} /\ InitWith({OneTrackFile}, {TRUE}, TRUE)

NextSetters ==
  \/ \E t \in TempoInputs : SetTempo(t)
  \/ \E t \in AdjustInputs : SetTempoAdjust(t)
  \/ \E ticks \in TicksInputs : SetTicksPerQuarterNote(ticks)
  \/ \E ts \in SignatureInputs : SetTimeSignature(ts[1], ts[2])
  \/ \E us \in TempoValues : SetMicrosecondPerQuarterNote(us)

SpecSetters == InitSetters /\ [][NextSetters]_vars

\* C16: a call of setTempo(t) with t + adjustment <= 0, or of setTempoAdjust(t) with
\* tempo + t <= 0, leaves the tempo, the adjustment and the tick duration as they were
C16_RejectedChangesNothing ==
  [][/\ \A t \in TempoInputs :
          (SetTempo(t) /\ ~(t + tempoDelta > 0)) => UNCHANGED <<tempo, tempoDelta, tickTime>>
     /\ \A t \in AdjustInputs :
          (SetTempoAdjust(t) /\ ~(tempo + t > 0)) => UNCHANGED <<tempo, tempoDelta, tickTime>>]_vars

\* the three divisors of the tick duration are not 0
DivisorsNonZero == tempo + tempoDelta # 0 /\ ticksPerQuarterNote # 0 /\ timeSignature[2] # 0

\* ((60,000,000 / (tempo+adjustment)) * 4) / (denominator * ticksPerQuarterNote)
TickFormula ==
  CDiv(CDiv(60000000, tempo + tempoDelta) * 4, timeSignature[2] * ticksPerQuarterNote)

\* C17: setMicrosecondPerQuarterNote(m) leaves the tempo at the quotient 60,000,000 / m,
\* and the tick duration at what the formula gives for it
C17_TempoIsQuotient ==
  ret.op = "setMicrosecondPerQuarterNote" =>
    /\ tempo = 60000000 \div ret.m
    /\ (tempo + tempoDelta > 0 /\ DivisorsNonZero) => tickTime = TickFormula

\* C18: after every operation the tick duration is what the formula gives for the fields
\* as they are, when none of the three divisors is 0, and what it was before, when one is
C18_TickTimeFollowsFields ==
  [][/\ DivisorsNonZero' => tickTime' = TickFormula'
     /\ ~DivisorsNonZero' => tickTime' = tickTime]_vars

-----------------------------------------------------------------------------
(* Scheduling by event priority: the one-track and the two-track file,     *)
(* polled a tick at a time.  The local doneEvents of processEvents is read *)
(* before it is written, so each call finds either value in it.            *)

\* the instant up to which a session is followed: eight ticks of 10416 us and a bit
MaxRoundTime == 84000

InitRound == intBits = 16 /\ InitWith({OneTrackFile, TwoTrackFile}, {FALSE}, TRUE)

NextRound ==
  \/ SetFilename("A")
  \/ Load
  \/ IsEOF
  \/ \E garbage \in BOOLEAN : GetNextEvent(garbage)
  \/ (fdOpen /\ ~TickDue /\ Advance(tickTime, MaxRoundTime))

SpecRound == InitRound /\ [][NextRound]_vars

\* C19: by event priority, after a step that fed ticks no track has an event left whose
\* time has come, unless the step ran its 100 rounds; and a track of the two-track file
\* that has not ended has been credited the ticks of every step once
C19_AllDueEventsDispatched ==
  (fdOpen /\ passes = <<>> /\ ret.op = "getNextEvent" /\ ret.val) =>
    /\ \A i \in 0..(trackCount - 1) :
         EventDue(i) => DispatchedAt(i, ticksFed) = EVENT_LOOP_LIMIT
    /\ desc = TwoTrackFile =>
         \A i \in 0..(trackCount - 1) :
            ~track[i].endOfTrack => track[i].elapsedTicks = ticksFed - DeltasConsumed(i)
-----------------------------------------------------------------------------
(* Decoding of single events, by track priority and with every hook        *)
(* registered: files of 96 ticks per quarter note, polled once the clock   *)
(* has moved on by one tick or by two.                                     *)

\* the instant up to which a session is followed, and the ticks fed up to which it is: the
\* eight ticks of the longest file, five of 5208 us and three of 10416 us, and a bit
MaxEventTime == 60000
MaxEventTicks == 8

\* the status bytes parseEvent has no case for, and some of them
UnknownStatus == (241..246) \cup (248..254)
SomeUnknownStatus == {241, 246, 248, 254}

\* a program change, then at tick 1 the status byte b and two data bytes, a note-on and
\* End-of-Track
StatusTrack(b) == <<0, 192, 5,   1, b, 60, 64,   0, 144, 62, 64>> \o EndOfTrack

\* the track with the status byte under test next to a sound track, in either order; 0x90
\* is the status byte of a file that has nothing wrong with it
StatusFiles ==
  {SmfFile(1, 96, <<StatusTrack(b), ShortNoteTrack>>) : b \in SomeUnknownStatus \cup {144}}
    \cup {SmfFile(1, 96, <<ShortNoteTrack, StatusTrack(b)>>) : b \in SomeUnknownStatus \cup {144}}

\* one meta event per tick: Sequence-Number, Channel-Prefix, Port-Prefix, Text,
\* Set-Tempo(1000000), Time-Signature n/2^d, Key-Signature (sf, mi), End-of-Track
MetaTrack(n, d, sf, mi) ==
  <<1, 255, 0, 2, 0, 5,   1, 255, 32, 1, 3,   1, 255, 33, 1, 1,   1, 255, 1, 3, 97, 98, 99,
    1, 255, 81, 3, 15, 66, 64,   1, 255, 88, 4, n, d, 24, 8,   1, 255, 89, 2, sf, mi,
    1, 255, 47, 0>>
MetaFile(n, d, sf, mi) == SmfFile(0, 96, <<MetaTrack(n, d, sf, mi)>>)

\* the time signatures 4/4, 6/8, 3/128 and one with the exponent 8
SignatureBytes == {<<4, 2>>, <<6, 3>>, <<3, 7>>, <<4, 8>>}

\* the counts -7, -1, 0, 7, -8, 8 and -128 as the file holds them, and the flags
KeyCountBytes == {249, 255, 0, 7, 248, 8, 128}
KeyFlagBytes == {0, 1, 2}

MetaFiles ==
  {MetaFile(ts[1], ts[2], 0, 0) : ts \in SignatureBytes}
    \cup {MetaFile(4, 2, sf, mi) : sf \in KeyCountBytes, mi \in KeyFlagBytes}

\* a track chunk of declared length 0 in front of a sound track and behind one, and a track
\* that ends without an End-of-Track meta event
NoEndTrack == <<0, 144, 60, 64,   1, 128, 60, 64>>
LengthFiles ==
  {SmfFile(1, 96, <<<<>>, ShortNoteTrack>>), SmfFile(1, 96, <<ShortNoteTrack, <<>>>>),
   SmfFile(1, 96, <<NoEndTrack, ShortNoteTrack>>)}

\* a length below 2^14 as a variable-length quantity
VarLen(n) == IF n < 128 THEN <<n>> ELSE <<128 + (n \div 128), n % 128>>

\* a SysEx event of declared length n behind lead byte `lead` at tick 1, its payload ending
\* in 0xF7, and End-of-Track at tick 2
LongSysexTrack(lead, n) ==
  <<1, lead>> \o VarLen(n) \o [k \in 1..n |-> IF k = n THEN 247 ELSE 1 + (k % 100)]
    \o <<1, 255, 47, 0>>
LongSysexFiles ==
  {SmfFile(0, 96, <<LongSysexTrack(lead, n)>>) : lead \in {240, 247}, n \in {3, 60, 200, 255, 256}}

EventFiles == StatusFiles \cup MetaFiles \cup LengthFiles \cup LongSysexFiles

InitEvents == intBits = 16 /\ InitWith(EventFiles, {TRUE}, TRUE)

NextEvents ==
  \/ SetFilename("A")
  \/ Load
  \/ IsEOF
  \/ GetNextEvent(FALSE)
  \/ \E k \in 1..2 :
       fdOpen /\ ~TickDue /\ ticksFed + k <= MaxEventTicks /\ Advance(k * tickTime, MaxEventTime)

SpecEvents == InitEvents /\ [][NextEvents]_vars

\* what tells one event handed to a hook from another: its kind and its type or bytes
EventKey(e) == IF e.kind = "meta" THEN <<"meta", e.type>> ELSE <<e.kind, e.data>>

\* what the hooks were handed for track i, oldest first, as keys
TrackKeys(i) == [k \in 1..Len(TrackSink(i)) |-> EventKey(TrackSink(i)[k])]

\* the track of a status file that holds the status byte under test, and that byte
StatusIndex(d) == IF d.chunks[1].data = ShortNoteTrack THEN 1 ELSE 0
StatusByte(d) == d.chunks[StatusIndex(d) + 1].data[5]

\* the events of ShortNoteTrack, and how many of them are due once n ticks have been fed
ShortNoteKeys == << <<"midi", <<144, 60, 64>> >>, <<"midi", <<128, 60, 64>> >>, <<"meta", 47>> >>
ShortNoteDue(n) == IF n = 0 THEN 0 ELSE IF n = 1 THEN 1 ELSE 3

\* C21: a status byte in 0xF1..0xF6 or 0xF8..0xFE ends its track: from the step that reaches
\* it on the end-of-track flag is set, the offset stays just behind the byte and the hooks
\* have had nothing of that track but the event in front of the byte; the other track is,
\* tick for tick, where it is when the file has nothing wrong, and gives out all its events
C21_UnknownStatusEndsTrack ==
  (fdOpen /\ desc \in StatusFiles /\ passes = <<>>) =>
    LET j == StatusIndex(desc)
        s == 1 - j
    IN /\ ~hung
       /\ (ticksFed >= 1 /\ StatusByte(desc) \in UnknownStatus) =>
            /\ track[j].endOfTrack
            /\ track[j].currOffset = 5
            /\ TrackKeys(j) = << <<"midi", <<192, 5>> >> >>
       /\ track[s].currOffset = 4 * ShortNoteDue(ticksFed)
       /\ track[s].endOfTrack = (ticksFed >= 2)
       /\ TrackKeys(s) = SubSeq(ShortNoteKeys, 1, ShortNoteDue(ticksFed))

\* C21 witness: track 0 was ended by the status byte 0xF8 at tick 1, and track 1 has played
\* its note and reached its End-of-Track after it
C21_SiblingPlayedOn ==
  /\ fdOpen /\ desc \in StatusFiles /\ passes = <<>>
  /\ StatusIndex(desc) = 0 /\ StatusByte(desc) = 248
  /\ track[0].endOfTrack /\ track[0].currOffset = 5
  /\ track[1].endOfTrack /\ Len(TrackSink(1)) = 3
  /\ sink[Len(sink)].at = 2
-----------------------------------------------------------------------------
(* Sessions with the two-track file in which the player is also paused and *)
(* resumed and the tempo is set from outside, in any order.                *)

\* the instant up to which a session is followed: three ticks of 5208 or 10416 us
MaxEndTime == 16000

InitEnd == intBits = 16 /\ InitWith({TwoTrackFile}, {TRUE}, TRUE)

NextEnd ==
  \/ SetFilename("A")
  \/ Load
  \/ Close
  \/ \E b \in BOOLEAN : Looping(b)
  \/ \E b \in BOOLEAN : Pause(b)
  \/ SetTempo(120)
  \/ Restart
  \/ IsEOF
  \/ GetNextEvent(FALSE)
  \/ (fdOpen /\ ~paused /\ ~TickDue /\ Advance(tickTime, MaxEndTime))

SpecEnd == InitEnd /\ [][NextEnd]_vars

\* the step is one of the operations that may put a track back to its start: restart,
\* called directly or by isEOF, close or load.  Every step but the passing of time leaves
\* the record of its call in ret.
Rewinds ==
  /\ now' = now
  /\ \/ ret'.op \in {"restart", "close", "load"}
     \/ (ret'.op = "isEOF" /\ ret'.restarted)

\* C22: a track whose end-of-track flag is set keeps it set, keeps its offset and gives no
\* event to a hook through every step that is not a restart, a close or a load: scheduling
\* steps, pausing and resuming, changes of the looping flag and of the tempo
C22_EndOfTrackStays ==
  [][~Rewinds =>
       \A i \in 0..(MIDI_MAX_TRACKS - 1) :
          track[i].endOfTrack =>
            /\ track'[i].endOfTrack
            /\ track'[i].currOffset = track[i].currOffset
            /\ TrackSink(i)' = TrackSink(i)]_vars

\* C22 witness: track 0 has ended and track 1 has not; since then the tempo was changed, the
\* looping flag was set and the tracks were synchronised again, as after a pause, and a
\* step has fed ticks, with no track rewound
C22_EndedAndStillPlaying ==
  /\ fdOpen /\ passes = <<>>
  /\ track[0].endOfTrack /\ track[0].currOffset = Len(SetupTrack)
  /\ ~track[1].endOfTrack
  /\ tempo = 120 /\ looping /\ ~paused
  /\ clk.t0 > 0
  /\ ret.op = "getNextEvent" /\ ret.val /\ ticksFed >= 2
-----------------------------------------------------------------------------
(* Playback with any of the three hooks registered or not.  The sketch     *)
(* registers its hooks in setup(), before it names the file; the file has  *)
(* events of all three kinds, and running status across a SysEx and a meta *)
(* event.                                                                  *)

\* the instant up to which a session is followed: the four ticks of the file and a bit
MaxHookTime == 55000

\* Set-Tempo(1000000) and a note-on; at tick 1 a SysEx event and the time signature 6/8; at
\* tick 2 a note-on in running status; at tick 3 a SysEx continuation, a note-off and
\* End-of-Track
MixedTrack ==
  <<0, 255, 81, 3, 15, 66, 64,   0, 144, 60, 64,   1, 240, 3, 1, 2, 247,
    0, 255, 88, 4, 6, 3, 24, 8,   1, 62, 65,   1, 247, 2, 5, 247,   0, 128, 60, 64>>
    \o EndOfTrack
MixedFile == SmfFile(0, 48, <<MixedTrack>>)

InitHooks == intBits = 16 /\ InitWith({MixedFile}, {TRUE}, FALSE)

NextHooks ==
  \/ \E b \in BOOLEAN : fileName = "" /\ SetMidiHandler(b)
  \/ \E b \in BOOLEAN : fileName = "" /\ SetSysexHandler(b)
  \/ \E b \in BOOLEAN : fileName = "" /\ SetMetaHandler(b)
  \/ SetFilename("A")
  \/ Load
  \/ IsEOF
  \/ GetNextEvent(FALSE)
  \/ (fdOpen /\ ~TickDue /\ Advance(tickTime, MaxHookTime))

SpecHooks == InitHooks /\ [][NextHooks]_vars

\* every way of registering the three hooks
HookSets == [midi : BOOLEAN, sysex : BOOLEAN, meta : BOOLEAN]
AllHooks == [midi |-> TRUE, sysex |-> TRUE, meta |-> TRUE]

\* the hook an event is for is registered in h
Wanted(h, e) ==
  IF e.kind = "midi" THEN h.midi ELSE IF e.kind = "sysex" THEN h.sysex ELSE h.meta

\* the machine after a call of getNextEvent on a player that is not paused, at the instant
\* `now`, had the hooks h been the ones registered
HookedStep(h) ==
  LET sync == ~syncAtStart
      tr0 == IF sync THEN synchTracks(track, trackCount) ELSE track
      last0 == IF sync THEN now ELSE lastTickCheckTime
      tc == tickClock(lastTickError, last0, now, tickTime)
      m0 == [Machine EXCEPT !.track = tr0, !.fed = @ + tc.ticks, !.hooks = h]
  IN IF tc.ticks = 0 THEN m0
     ELSE processEvents(File, m0, trackCount, tc.ticks, trackPriority, FALSE)

\* a machine without what depends on the hooks by definition: the record of what they were
\* handed, and which of them are registered
Core(m) == [m EXCEPT !.sink = <<>>, !.hooks = AllHooks]

\* what a step that led to machine m handed to the hooks
NewEvents(m) == SubSeq(m.sink, Len(sink) + 1, Len(m.sink))

\* alt and all are the outcomes of the same step with the hooks h and with every hook
SameButSink(h, alt, all) ==
  /\ Core(alt) = Core(all)
  /\ ~alt.hung
  /\ NewEvents(alt) = SelectSeq(NewEvents(all), LAMBDA e : Wanted(h, e))

\* C23: a scheduling step leaves the file position, the tracks (offsets, end-of-track
\* flags, running status), the tempo, the time signature and the tick duration the same
\* whichever hooks are registered, and hands the registered hooks the events it would hand
\* them were all three registered, in the same order; no step hangs, and no hook that is
\* not registered is handed anything.  Load, isEOF and the clock do not look at the hooks,
\* so two runs that differ in the hooks alone go through the same states step for step.
C23_HooksDoNotSteer ==
  [][(GetNextEvent(FALSE) /\ ~paused) =>
       /\ Machine' = HookedStep(Machine.hooks)
       /\ \A h \in HookSets : SameButSink(h, HookedStep(h), HookedStep(AllHooks))
       /\ \A k \in 1..Len(sink') : Wanted(Machine.hooks, sink'[k])]_vars

\* C23 witness: the file was played to its end with the MIDI hook alone: the hook has had
\* the three channel events, the SysEx and meta events were read and dropped, and the
\* tempo and the time signature are what the meta events set
C23_PlayedWithMidiHookOnly ==
  /\ midiHandler /\ ~sysexHandler /\ ~metaHandler
  /\ fdOpen /\ track[0].endOfTrack /\ track[0].currOffset = Len(MixedTrack)
  /\ [k \in 1..Len(sink) |-> sink[k].data] = << <<144, 60, 64>>, <<144, 62, 65>>, <<128, 60, 64>> >>
  /\ tempo = 60 /\ timeSignature = <<6, 8>>

\* the meta events handed to the meta hook so far, oldest first
MetaEvents == SelectSeq(sink, LAMBDA e : e.kind = "meta")

\* the types of the meta events of a meta file, and the offset behind each of them
MetaTypes == <<0, 32, 33, 1, 81, 88, 89, 47>>
MetaEnds == <<6, 11, 16, 23, 30, 38, 44, 48>>

\* the numerator and the exponent byte of the time signature of a meta file, and the two
\* bytes of its key signature
SignatureOf(d) == <<TrackData(d)[35], TrackData(d)[36]>>
KeyOf(d) == <<TrackData(d)[43], TrackData(d)[44]>>

\* how many events of a meta file lie in front of the current offset of its track
MetaDecoded == Cardinality({k \in 1..Len(MetaEnds) : MetaEnds[k] <= track[0].currOffset})

\* C24: the meta hook is called once for every meta event decoded, of whatever type, in
\* file order; and what the decoder itself does for the event is done when the hook is
\* called: the end-of-track flag is set for End-of-Track, the tempo is 60 and the tick
\* duration 10416 us for Set-Tempo(1000000), the numerator is n for the time signature, and
\* the tempo, time signature, tick duration and flag the last call saw are the ones that
\* hold after it
C24_MetaForwardedAfterUpdate ==
  (fdOpen /\ desc \in MetaFiles /\ passes = <<>>) =>
    /\ Len(MetaEvents) = MetaDecoded
    /\ \A k \in 1..Len(MetaEvents) :
         /\ MetaEvents[k].type = MetaTypes[k]
         /\ (MetaEvents[k].type = 47 => MetaEvents[k].endOfTrack)
         /\ (MetaEvents[k].type = 81 => MetaEvents[k].tempo = 60 /\ MetaEvents[k].tickTime = 10416)
         /\ (MetaEvents[k].type = 88 =>
               MetaEvents[k].timeSignature[1] = SignatureOf(desc)[1])
    /\ (MetaEvents # <<>>) =>
         LET e == MetaEvents[Len(MetaEvents)]
         IN /\ e.tempo = tempo /\ e.timeSignature = timeSignature /\ e.tickTime = tickTime
            /\ e.endOfTrack = track[0].endOfTrack

\* C24 witness: the file with the time signature 6/8 was played to its end and the hook has
\* had its eight meta events
C24_EightMetaEvents ==
  /\ fdOpen /\ desc = MetaFile(6, 3, 0, 0) /\ passes = <<>>
  /\ track[0].endOfTrack
  /\ Len(MetaEvents) = 8
  /\ timeSignature = <<6, 8>>

\* C26: a Time-Signature meta event with numerator n and exponent byte d leaves the time
\* signature n over 2^d and the tick duration at what the formula gives with that
\* denominator, both in place when the hook is called, and the track is read on from just
\* behind an event
C26_DenominatorIsPowerOfTwo ==
  (fdOpen /\ desc \in MetaFiles /\ passes = <<>>) =>
    /\ \A k \in 1..Len(MetaEvents) :
         MetaEvents[k].type = 88 =>
           /\ MetaEvents[k].timeSignature = <<SignatureOf(desc)[1], Pow2(SignatureOf(desc)[2])>>
           /\ MetaEvents[k].tickTime =
                CDiv(CDiv(60000000, MetaEvents[k].tempo) * 4,
                     Pow2(SignatureOf(desc)[2]) * ticksPerQuarterNote)
    /\ track[0].currOffset \in {0} \cup {MetaEnds[k] : k \in 1..Len(MetaEnds)}

\* an int8_t read from a byte of the file
SignedByte(b) == IF b >= 128 THEN b - 256 ELSE b

\* C27: for a Key-Signature meta event with count sf and flag mi the hook gets the text
\* table[sf+7] and "M" when sf is in -7..7 and mi is 0, table[sf+10] and "m" when sf is in
\* -7..7 and mi is 1, and "Err" otherwise; the index is inside the table of 18 names, and
\* the size handed over is the length of the text
C27_KeyNameRendered ==
  (fdOpen /\ desc \in MetaFiles /\ passes = <<>>) =>
    \A k \in 1..Len(MetaEvents) :
       MetaEvents[k].type = 89 =>
         LET sf == SignedByte(KeyOf(desc)[1])
             mi == KeyOf(desc)[2]
             inRange == sf >= -7 /\ sf <= 7
         IN /\ MetaEvents[k].size = Len(MetaEvents[k].data)
            /\ Len(KeyNames) = 18
            /\ (inRange /\ mi = 0) =>
                 /\ sf + 7 \in 0..(Len(KeyNames) - 1)
                 /\ MetaEvents[k].data = KeyNames[sf + 7 + 1] \o <<"M">>
            /\ (inRange /\ mi = 1) =>
                 /\ sf + 10 \in 0..(Len(KeyNames) - 1)
                 /\ MetaEvents[k].data = KeyNames[sf + 10 + 1] \o <<"m">>
            /\ (~inRange \/ mi \notin {0, 1}) => MetaEvents[k].data = <<"E", "r", "r">>

\* C27 witness: the key signature of seven flats, minor, was handed to the hook as "Abm"
C27_AFlatMinor ==
  /\ fdOpen /\ desc = MetaFile(4, 2, 249, 1) /\ passes = <<>>
  /\ Len(MetaEvents) >= 7
  /\ MetaEvents[7].type = 89
  /\ MetaEvents[7].data = <<"A", "b", "m">> /\ MetaEvents[7].size = 3

\* C25: while a file is loaded, every track that has not ended has its current offset
\* in front of the end of its chunk: below its declared length
C25_OffsetInsideTrack ==
  (fdOpen /\ desc \in LengthFiles) =>
    \A i \in 0..(trackCount - 1) :
       ~track[i].endOfTrack => track[i].currOffset < track[i].length

\* the declared length of the SysEx event of a file, and the bytes that hold it
SysexLength(d) == readVarLen(TrackData(d), 2).v
SysexLengthBytes(d) == readVarLen(TrackData(d), 2).pos - 2

\* the offset behind the SysEx event: a delta-time, the lead byte, the length, the payload
SysexEnd(d) == 1 + 1 + SysexLengthBytes(d) + SysexLength(d)

\* C28: the step that decodes a SysEx event of declared length L leaves the track
\* 1 + (bytes of the length) + L behind the lead byte, whether the payload fits the buffer
\* or not, and hands the hook one event, which begins with the lead byte 0xF0 followed by
\* the payload, or, for 0xF7, with the payload; the End-of-Track behind it is found a tick
\* later, where it is
C28_SysexAdvance ==
  (fdOpen /\ desc \in LongSysexFiles /\ passes = <<>>) =>
    /\ (ticksFed = 1) =>
         /\ track[0].currOffset = SysexEnd(desc)
         /\ Len(SysexEvents) = 1
         /\ SubSeq(SysexEvents[1].data, 1, 2) =
              (IF TrackData(desc)[2] = 240 THEN <<240, 2>> ELSE <<2, 3>>)
    /\ (ticksFed >= 2) =>
         /\ track[0].endOfTrack
         /\ track[0].currOffset = SysexEnd(desc) + 4
         /\ Len(sink) = 2 /\ sink[2].kind = "meta" /\ sink[2].type = 47

\* C29: a clock sample that reports ticks leaves as carried error the time elapsed less the
\* ticks reported, which is less than one tick duration, and takes the sampling instant as
\* the last sample time; a sample that reports no tick leaves the carried error and the
\* last sample time as it found them
C29_ErrorBelowTick ==
  [][(GetNextEvent(FALSE) /\ ~paused) =>
       IF ret'.ticks # 0
       THEN /\ lastTickError' = ElapsedTime - (ret'.ticks * tickTime)
            /\ lastTickError' < tickTime
            /\ lastTickCheckTime' = now
       ELSE /\ lastTickError' = lastTickError
            /\ lastTickCheckTime' = (IF syncAtStart THEN lastTickCheckTime ELSE now)]_vars

-----------------------------------------------------------------------------
(* What the scheduler owes each track of the two-track file and of the      *)
(* burst file: its events as the file has them, in SpecSched.               *)

\* the events of a track in file order, and the offset behind each of them
SetupKeys == << <<"meta", 81>>, <<"midi", <<192, 5>> >>, <<"meta", 47>> >>
SetupEnds == <<7, 10, 14>>
ShortNoteEnds == <<4, 8, 12>>
BurstKeys ==
  << <<"midi", <<192, 5>> >> >>
    \o [k \in 1..EVENT_LOOP_LIMIT |-> <<"midi", <<192, k>> >>] \o << <<"meta", 47>> >>
BurstEnds == <<3>> \o [k \in 1..EVENT_LOOP_LIMIT |-> 3 + (2 * k)] \o <<(2 * EVENT_LOOP_LIMIT) + 7>>

FileKeys(d, i) ==
  IF i = 1 THEN ShortNoteKeys ELSE IF d = BurstFile THEN BurstKeys ELSE SetupKeys
FileEnds(d, i) ==
  IF i = 1 THEN ShortNoteEnds ELSE IF d = BurstFile THEN BurstEnds ELSE SetupEnds

\* track i has been handed out as the file has it: its events so far are the first of the
\* file's, each once and in order, its offset is behind the last of them, and it has
\* ended when the last of them is out
HandedOutInOrder(i) ==
  LET n == Len(TrackSink(i))
  IN /\ n <= Len(FileKeys(desc, i))
     /\ TrackKeys(i) = SubSeq(FileKeys(desc, i), 1, n)
     /\ track[i].currOffset = (IF n = 0 THEN 0 ELSE FileEnds(desc, i)[n])
     /\ track[i].endOfTrack = (n = Len(FileKeys(desc, i)))

\* C30: on the first pass of a file, after every step of getNextEvent, each track has given
\* out its events in file order, each once, whether or not a step met the limit of 100
\* (what a step leaves is given out by later ones, and the track ends with its last
\* event); a track from which a step that fed ticks took nothing, its next event not being
\* due, keeps its offset and is credited the ticks of the step
C30_NothingLostByTheCap ==
  [][(GetNextEvent(FALSE) /\ fdOpen /\ passes = <<>>) =>
       \A i \in 0..(trackCount - 1) :
          /\ HandedOutInOrder(i)'
          /\ (syncAtStart /\ ~track[i].endOfTrack /\ TrackSink(i)' = TrackSink(i)) =>
               /\ track'[i].currOffset = track[i].currOffset
               /\ track'[i].elapsedTicks = track[i].elapsedTicks + ret'.ticks]_vars

\* C30 witness: track 0 of the burst file has ended with its 102 events out, 100 of them
\* from the step that met the limit and the last two from the step after it
C30_BurstAllOut ==
  /\ fdOpen /\ desc = BurstFile /\ passes = <<>>
  /\ ret.op = "getNextEvent" /\ ret.val
  /\ track[0].endOfTrack /\ TrackKeys(0) = BurstKeys
  /\ DispatchedAt(0, ticksFed) = 2
  /\ \E n \in 1..(ticksFed - 1) : DispatchedAt(0, n) = EVENT_LOOP_LIMIT

-----------------------------------------------------------------------------
(* Running status across SysEx and meta events, in SpecHooks.  In the mixed *)
(* file the note-on at offset 7 is followed by a SysEx event and a time     *)
(* signature, and the continuation bytes 62 65 lie at offset 26.            *)

\* the running-status memory of track i: command, channel and size of the last channel
\* message
StatusMemory(tr) == <<tr.mev.data[1], tr.mev.channel, tr.mev.size>>

-----------------------------------------------------------------------------
(* Meta events of every interpreted type, and of two types the decoder does *)
(* not interpret, with declared lengths around the length the format gives  *)
(* them and around the capacity of the payload buffer.                      *)

\* the instant and the tick up to which a file is followed
MaxMetaTime == 40000
MaxMetaTicks == 3

\* the payload of a meta event: a time signature 4/4, or else the tempo 1000000 us first
MetaPayload(type, n) ==
  [k \in 1..n |-> IF k > 4 THEN k % 128
                  ELSE IF type = 88 THEN <<4, 2, 24, 8>>[k] ELSE <<15, 66, 64, 9>>[k]]

\* a meta event of the given type and declared length at tick 1, End-of-Track at tick 2
MetaLengthTrack(type, n) == <<1, 255, type, n>> \o MetaPayload(type, n) \o <<1, 255, 47, 0>>

\* sequence number, channel prefix, port prefix, tempo, key signature, text, sequencer specific
LengthTypes == {0, 32, 33, 81, 89, 1, 127}
DeclaredLengths == {0, 1, 2, 3, 4, 49, 50, 51, 60}
MetaLengthFiles ==
  {SmfFile(0, 96, <<MetaLengthTrack(type, n)>>) : type \in LengthTypes, n \in DeclaredLengths}
    \cup {SmfFile(0, 96, <<MetaLengthTrack(88, n)>>) : n \in {2, 4, 5, 60}}

InitMeta == intBits = 16 /\ InitWith(MetaLengthFiles, {TRUE}, TRUE)

NextMeta ==
  \/ SetFilename("A")
  \/ Load
  \/ \E garbage \in BOOLEAN : GetNextEvent(garbage)
  \/ (fdOpen /\ ~TickDue /\ ticksFed < MaxMetaTicks /\ Advance(tickTime, MaxMetaTime))

SpecMeta == InitMeta /\ [][NextMeta]_vars

\* the type and the declared length of the meta event of a file
MetaTypeOf(d) == TrackData(d)[3]
MetaLengthOf(d) == TrackData(d)[4]

\* C32: the step that decodes a meta event other than End-of-Track leaves the track just
\* behind the declared payload: a delta-time, the status byte, the type, the length and as
\* many bytes as the length declares, whatever the type and the length; the End-of-Track
\* behind it is found a tick later
C32_MetaAdvance ==
  (fdOpen /\ desc \in MetaLengthFiles) =>
    /\ (ticksFed = 1) => track[0].currOffset = 4 + MetaLengthOf(desc)
    /\ (ticksFed = 2) =>
         /\ track[0].endOfTrack
         /\ track[0].currOffset = 4 + MetaLengthOf(desc) + 4
         /\ Len(sink) = 2 /\ sink[2].type = 47

\* C33: every byte a meta event has written into its payload buffer, the terminator
\* behind the bytes of an uninterpreted type included, lies at an index below the capacity
\* of the buffer
C33_WritesInsideBuffer ==
  \A k \in 1..Len(sink) : sink[k].kind = "meta" => sink[k].top < META_DATA_SIZE

-----------------------------------------------------------------------------
(* The time base under the setters, load and the Set-Tempo events of a      *)
(* file, in a build of either width of int: the two-track file, whose       *)
(* Set-Tempo gives 60 beats per minute, and a file of 960 ticks per quarter *)
(* note.                                                                    *)

\* the instant and the tick up to which a session is followed
MaxBaseTime == 30000
MaxBaseTicks == 3

FineFile == SmfFile(0, 960, <<NoteTrack>>)

InitBase == intBits \in {16, 32} /\ InitWith({TwoTrackFile, FineFile}, {TRUE}, TRUE)

\* tickClock divides by the tick duration: with a tick duration of 0 the division is
\* undefined, and a session is not followed beyond it
NextBase ==
  \/ \E t \in {120, 65535} : SetTempo(t)
  \/ \E t \in {-100, 0} : SetTempoAdjust(t)
  \/ SetFilename("A")
  \/ Load
  \/ (tickTime # 0 /\ GetNextEvent(FALSE))
  \/ (fdOpen /\ tickTime # 0 /\ ~TickDue /\ ticksFed < MaxBaseTicks
        /\ Advance(tickTime, MaxBaseTime))

SpecBase == InitBase /\ [][NextBase]_vars

\* C34: the tick duration is 1 microsecond or more in every state that construction, load,
\* the setters and the meta events of a file lead to
C34_TickTimePositive == tickTime >= 1

\* C35: tempo + adjustment is above 0 in every state, after a Set-Tempo event was decoded
\* under an adjustment as well
C35_EffectiveTempoPositive == tempo + tempoDelta > 0

\* C36: a load that fails on a player that has no track loaded leaves it with no track
\* loaded: the file is closed, the track count is 0 and every track is as construction
\* left it
C36_FailedLoadLeavesNothing ==
  (ret.op = "load" /\ ret.val # -1 /\ ~ret.wasOpen /\ ret.before.trackCount = 0) =>
    /\ ~fdOpen
    /\ trackCount = 0
    /\ \A i \in 0..(MIDI_MAX_TRACKS - 1) : track[i] = ret.before.track[i]

\* where track i stands in musical time: the delta-times of the events it has given out
\* and the ticks it has been credited towards the next one
MusicalPosition(i) == DeltasConsumed(i) + track[i].elapsedTicks

\* C37: on the first pass of the two-track file every track that has not ended stands, in
\* musical time, at the number of ticks fed while playing, whether or not the player was
\* paused and resumed on the way: the next event of each track comes when the ticks played
\* since the event before it make up its delta-time, and the tracks keep their distance
C37_DeltaKeptAcrossPause ==
  (fdOpen /\ desc = TwoTrackFile /\ passes = <<>>) =>
    \A i \in 0..(trackCount - 1) :
       ~track[i].endOfTrack => MusicalPosition(i) = ticksFed

-----------------------------------------------------------------------------
(* Tracks on one file descriptor, in SpecShare: the two-track file played   *)
(* by track priority and by event priority, so that the decode attempts of *)
(* the two tracks follow one another in either order.                      *)

\* the instant up to which a session is followed
MaxShareTime == 45000

InitShare == intBits = 16 /\ InitWith({TwoTrackFile}, {TRUE, FALSE}, TRUE)

NextShare ==
  \/ SetFilename("A")
  \/ Load
  \/ \E garbage \in BOOLEAN : GetNextEvent(garbage)
  \/ (fdOpen /\ ~TickDue /\ Advance(tickTime, MaxShareTime))

SpecShare == InitShare /\ [][NextShare]_vars

\* what a decode attempt on a track leaves of interest to that track and to its listeners
Attempt(r) == [b |-> r.b, track |-> r.m.track, sink |-> r.m.sink, fdPos |-> r.m.fdPos]

-----------------------------------------------------------------------------
(* Progress towards the end of the file, in SpecShare.  A track comes to    *)
(* its end through steps that either hand out its next event or credit it  *)
(* the ticks of the step; the file is finished when every track has ended. *)

\* track i is further on in tr2 than in tr1: behind more bytes, or credited more ticks
FurtherOn(tr1, tr2, i) ==
  \/ tr2[i].currOffset > tr1[i].currOffset
  \/ tr2[i].currOffset = tr1[i].currOffset /\ tr2[i].elapsedTicks > tr1[i].elapsedTicks

\* C39: with looping off and the player not paused, every step of getNextEvent that feeds
\* ticks to a synchronised file brings each track that has not ended further on, so that
\* polling as the clock moves on brings every track to its end and isEOF to true
C39_EveryTickBringsTracksOn ==
  [][(ticksFed' > ticksFed /\ fdOpen /\ ~paused /\ ~looping /\ syncAtStart) =>
       \A i \in 0..(trackCount - 1) :
          ~track[i].endOfTrack => FurtherOn(track, track', i)]_vars

-----------------------------------------------------------------------------
(* A player on which no hook was ever registered, in SpecFresh: the mixed   *)
(* file, which holds channel, SysEx and meta events, is loaded and played   *)
(* to its end.  The constructor assigns _midiHandler and _sysexHandler and  *)
(* does not assign _metaHandler: where the storage of the object is zeroed  *)
(* beforehand the pointer is null, elsewhere it holds what the storage held. *)

\* the instant up to which a session is followed: the four ticks of the file and a bit
MaxFreshTime == 95000

InitFresh == intBits = 16 /\ InitObject({MixedFile}, {TRUE, FALSE}, FALSE, BOOLEAN)

NextFresh ==
  \/ SetFilename("A")
  \/ Load
  \/ IsEOF
  \/ \E garbage \in BOOLEAN : GetNextEvent(garbage)
  \/ (fdOpen /\ ~TickDue /\ Advance(tickTime, MaxFreshTime))

SpecFresh == InitFresh /\ [][NextFresh]_vars

\* C40: on a player on which no handler was registered since construction no hook is ever
\* called, whatever the file holds
C40_NoHookCalled == sink = <<>>
====
